---- MODULE Spec2Model ----
(***************************************************************************)
(* go-gnss/ntrip: the publish/subscribe broker behind the NTRIP caster.    *)
(*                                                                         *)
(* Spec        the in-memory SourceService (internal/inmemory/service.go,  *)
(*             lines 119-290) driven by the handlers of handler.go (lines  *)
(*             260-529): Publisher and its pump goroutine, Subscriber and  *)
(*             its closer and reader goroutines, the handlers' copy and    *)
(*             write loops.                                                *)
(* SpecFanOut  one fan-out round of the first Publisher of the same file   *)
(*             (lines 63-71), which removes failed writers in place.       *)
(* SpecCaster  the caster package (caster/caster.go, caster/mountpoint.go):*)
(*             AddMountpoint, Broadcast, the GET loop.                     *)
(* SpecHandler one request through the HTTP handler and one connection     *)
(*             through the v1 SOURCE listener.                             *)
(* SpecTable   the sourcetable: String, ParseSourcetable, Filter.          *)
(* SpecParse   ParseSourcetable on texts of arbitrary lines.               *)
(* SpecServer  ListenAndServe and Close of the v1 SOURCE server.           *)
(* SpecRtsp    the RTSP server: one request per connection.                *)
(*                                                                         *)
(* Every goroutine is a process with its own program counter.  A step of   *)
(* the model ends at a blocking point of the code: a mutex acquisition, a  *)
(* rendezvous on an io.Pipe, a channel send or receive, a check of a       *)
(* context another goroutine cancels.  Code that cannot block and reads    *)
(* no shared state runs in the step that reaches it.                       *)
(***************************************************************************)
EXTENDS Integers, Sequences, FiniteSets, TLC

\* ------------------------------------------------------------------ bounds
\* Chunks the publishers write in total.
MaxChunks == 3
\* Capacity of a subscriber's data channel.  The code allocates 8
\* (service.go:245); the model scales it down, which changes only how many
\* chunks a subscriber that does not read absorbs.
ChanCap == 1

\* Writers registered on the mount whose fan-out round is examined.
NumWriters == 3
\* Capacity of a Connection's channel in the caster package.  The code
\* allocates 10 (NewConnection); scaled down like ChanCap.
ConnChanCap == 1

\* Publish requests (POST /mount) and subscribe requests (GET /mount) the
\* environment issues; each request is served by one handler.
Pubs == {1, 2}
Subs == {1, 2}
Mounts == {"TEST00AUS0", "TEST01AUS0"}
Writers == 1..NumWriters
\* Connections the caster package serves: sources POST, clients GET.
Sources == {1, 2}
Clients == {1, 2}
\* Credentials as an Authoriser sees them (service_test.go:17-27): accepted,
\* rejected, or the backend fails.
Creds == {"valid", "invalid", "fail"}
\* Chunk k of publisher p is <<p, k>>; NoChunk is the absence of one.
NoChunk == <<>>

VARIABLES
    lock,        \* ss.Mutex: 0 when free, p while pump p holds it in a fan-out
    mounts,      \* ss.mounts: mount name -> sequence of subscriber pipe writers
    written,     \* chunks written so far by all publishers
    \* --- publish request p: handlePostMountV2 and Publisher
    pubPc,       \* "idle" | "lock" | "copy" | "write" | "done"
    pubMount,    \* mount of the request
    pubCred,     \* credentials of the request ("" before it arrives)
    pubResult,   \* "none" | "ok" | "unauthorized" | "error" | "conflict"
    pubCtx,      \* r.Context() is cancelled
    pubPipe,     \* chunk pending in the publisher's io.Pipe
    pubClosed,   \* pub.Close() was called
    pubStream,   \* chunks whose Write returned, in order
    \* --- pump goroutine of publish request p
    pumpPc,      \* "none" | "loop" | "read" | "fan" | "write" | "exit" | "done"
    pumpBuf,     \* chunk read from the pipe
    pumpRest,    \* writers of the range loop still to visit
    pumpActive,  \* activeWriters
    \* --- subscribe request s: handleGetMountV2 / V1, Subscriber, write
    subPc,       \* "idle" | "lock" | "stream" | "done"
    subMount,    \* mount of the request
    subCred,     \* credentials of the request ("" before it arrives)
    subResult,   \* "none" | "ok" | "unauthorized" | "error" | "notfound" |
                 \* "closed" | "writefail" | "cancelled"
    subWClosed,  \* w.Close() was called on the subscriber's pipe
    rdPc,        \* reader goroutine: "none" | "read" | "send" | "done"
    rdBuf,       \* chunk the reader goroutine holds
    chan,        \* data channel: buffered chunks
    chanClosed,  \* number of times close(data) ran
    recv,        \* chunks written to the subscriber's socket, in order
    \* --- history
    subPub,      \* publisher whose mount entry the subscriber registered in
    joinAt,      \* Len(pubStream[subPub[s]]) when s registered
    conflictAt   \* per rejected publish: Len(pubStream) of the incumbent then

brokerVars == <<lock, mounts, written,
                pubPc, pubMount, pubCred, pubResult, pubCtx, pubPipe, pubClosed, pubStream,
                pumpPc, pumpBuf, pumpRest, pumpActive,
                subPc, subMount, subCred, subResult, subWClosed,
                rdPc, rdBuf, chan, chanClosed, recv,
                subPub, joinAt, conflictAt>>

pubVars  == <<pubPc, pubMount, pubCred, pubResult, pubCtx, pubPipe, pubClosed, pubStream,
              conflictAt>>
pumpVars == <<pumpPc, pumpBuf, pumpRest, pumpActive>>
subVars  == <<subPc, subMount, subCred, subResult, subWClosed,
              rdPc, rdBuf, chan, chanClosed, recv, subPub, joinAt>>

\* The fan-out loop of the first Publisher (service.go lines 63-71), one round
\* of it over the slice ss.mounts[mount].
VARIABLES
    fanPc,       \* "idle" | "lock" | "range" | "done" | "panic" | "gone" | "fatal"
    fanMutex,    \* ss.Mutex: "free" | "pump" | "call" (a Publisher or Subscriber call)
    fanOnline,   \* the mount is a key of ss.mounts
    fanArray,    \* the backing array of ss.mounts[mount]
    fanLen,      \* len(ss.mounts[mount]): the map's slice is fanArray[1..fanLen]
    fanN,        \* length of the slice the range expression evaluated to
    fanI,        \* the loop index i, counted from 1
    fanClosed,   \* the writers whose pipe is closed: Write on them fails
    fanWrites,   \* per writer: how many times the chunk was written to it
    fanBefore    \* ss.mounts[mount] when the round took the mutex

fanVars == <<fanPc, fanMutex, fanOnline, fanArray, fanLen, fanN, fanI, fanClosed, fanWrites,
            fanBefore>>

\* The earlier caster package (caster/caster.go, caster/mountpoint.go):
\* source connections POST to a mount, client connections GET from it.
VARIABLES
    casterMounts,  \* caster.Mounts: mount path -> source connection
    srcPc,         \* source connection: "idle" | "broadcast" | "conflict" | "gone"
    srcMount,      \* Request.URL.Path of the source connection
    srcStream,     \* chunks Broadcast has read from the source, in order
    subscribers,   \* mount.Subscribers of the source's Mountpoint
    cliPc,         \* client connection: "idle" | "stream" | "notfound" | "done"
    cliSrc,        \* source whose Mountpoint the client registered with
    cliJoin,       \* Len(srcStream[cliSrc[c]]) when the client registered
    channel,       \* conn.channel: buffered chunks
    cliRecv,       \* chunks written to the client's ResponseWriter, in order
    broadcasts     \* chunks read by all Broadcast loops so far

casterVars == <<casterMounts, srcPc, srcMount, srcStream, subscribers,
                cliPc, cliSrc, cliJoin, channel, cliRecv, broadcasts>>

\* The front end: one request served by the HTTP handler (handler.go, lines
\* 260-529) or one connection served by the v1 SOURCE listener
\* (v1source.Server.handleConnection).  The SourceService behind it is an
\* interface; the outcome of its call is an input.
VARIABLES
    reqKind,     \* "none" | "http" | "source": which listener accepted
    reqVer,      \* value of the Ntrip-Version header, <<>> when absent
    reqMethod,   \* request method
    reqPath,     \* request path: "/" or a mount path
    reqLine,     \* v1 SOURCE: the first line, trimmed and split on " "
    reqRead,     \* v1 SOURCE: how far the request can be read
    svcOutcome,  \* what Publisher or Subscriber returns for this request
    hijackOK,    \* whether the ResponseWriter can be hijacked
    subChan,     \* chunks the subscriber channel delivers before it closes
    hPc,         \* position of the handler
    hVersion,    \* 0 until dispatched, then 1 or 2
    hLog         \* what the handler did to the service and the connection

handlerVars == <<reqKind, reqVer, reqMethod, reqPath, reqLine, reqRead, svcOutcome,
                 hijackOK, subChan, hPc, hVersion, hLog>>

\* The sourcetable functions (sourcetable.go): String and ParseSourcetable,
\* Filter.
VARIABLES
    tblIn,       \* a sourcetable
    tblQuery,    \* a filter query
    tblPc,       \* "idle" | "start" | "serialized" | "parsed" | "filtered" |
                 \* "refiltered" | "text" | "parsedText"
    tblText,     \* tblIn.String()
    tblParsed,   \* ParseSourcetable(tblText)
    tblOnce,     \* tblIn.Filter(tblQuery): the table and whether err != nil
    tblTwice     \* tblOnce filtered with tblQuery again

tableVars == <<tblIn, tblQuery, tblPc, tblText, tblParsed, tblOnce, tblTwice>>

\* The v1 SOURCE listener (v1source.Server): one ListenAndServe call, the
\* Close calls made while it is pending, the connections it accepts.
VARIABLES
    srvRunning,  \* s.running
    srvListener, \* s.listener # nil
    srvSocket,   \* the listener net.Listen returned: "none" | "open" | "closed"
    lsPc,        \* ListenAndServe: "off" | "idle" | "listen" | "assign" | "accept" | "returned"
    lsErr,       \* ListenAndServe returned an error
    clPc,        \* per Close call: "idle" | "returned"
    srvConns     \* per accepted connection: "open" | "closed"

serverVars == <<srvRunning, srvListener, srvSocket, lsPc, lsErr, clPc, srvConns>>

\* The RTSP adapter (rtsp.Server.handleConnection, rtsp.RTSPHandler): the
\* connections it serves, one after the other.
VARIABLES
    rtspIssued,  \* session ids generateSessionID has returned so far
    rtspReq,     \* per connection: the request read from it
    rtspSession, \* per connection: conn.sessionID
    rtspLog      \* per connection: the Subscriber call and the responses written

rtspVars == <<rtspIssued, rtspReq, rtspSession, rtspLog>>

vars == <<brokerVars, fanVars, casterVars, handlerVars, tableVars, serverVars, rtspVars>>

BrokerInit ==
    /\ lock = 0
    /\ mounts = <<>>
    /\ written = 0
    /\ pubPc = [p \in Pubs |-> "idle"]
    /\ pubMount = [p \in Pubs |-> ""]
    /\ pubCred = [p \in Pubs |-> ""]
    /\ pubResult = [p \in Pubs |-> "none"]
    /\ pubCtx = [p \in Pubs |-> FALSE]
    /\ pubPipe = [p \in Pubs |-> NoChunk]
    /\ pubClosed = [p \in Pubs |-> FALSE]
    /\ pubStream = [p \in Pubs |-> <<>>]
    /\ pumpPc = [p \in Pubs |-> "none"]
    /\ pumpBuf = [p \in Pubs |-> NoChunk]
    /\ pumpRest = [p \in Pubs |-> <<>>]
    /\ pumpActive = [p \in Pubs |-> <<>>]
    /\ subPc = [s \in Subs |-> "idle"]
    /\ subMount = [s \in Subs |-> ""]
    /\ subCred = [s \in Subs |-> ""]
    /\ subResult = [s \in Subs |-> "none"]
    /\ subWClosed = [s \in Subs |-> FALSE]
    /\ rdPc = [s \in Subs |-> "none"]
    /\ rdBuf = [s \in Subs |-> NoChunk]
    /\ chan = [s \in Subs |-> <<>>]
    /\ chanClosed = [s \in Subs |-> 0]
    /\ recv = [s \in Subs |-> <<>>]
    /\ subPub = [s \in Subs |-> 0]
    /\ joinAt = [s \in Subs |-> 0]
    /\ conflictAt = [p \in Pubs |-> 0]

FanIdle ==
    /\ fanPc = "idle"
    /\ fanMutex = "free"
    /\ fanOnline = FALSE
    /\ fanArray = <<>>
    /\ fanLen = 0
    /\ fanN = 0
    /\ fanI = 0
    /\ fanClosed = {}
    /\ fanWrites = [w \in Writers |-> 0]
    /\ fanBefore = <<>>

CasterInit ==
    /\ casterMounts = <<>>
    /\ srcPc = [c \in Sources |-> "idle"]
    /\ srcMount = [c \in Sources |-> ""]
    /\ srcStream = [c \in Sources |-> <<>>]
    /\ subscribers = [c \in Sources |-> {}]
    /\ cliPc = [c \in Clients |-> "idle"]
    /\ cliSrc = [c \in Clients |-> 0]
    /\ cliJoin = [c \in Clients |-> 0]
    /\ channel = [c \in Clients |-> <<>>]
    /\ cliRecv = [c \in Clients |-> <<>>]
    /\ broadcasts = 0

HandlerIdle ==
    /\ reqKind = "none"
    /\ reqVer = <<>>
    /\ reqMethod = ""
    /\ reqPath = ""
    /\ reqLine = <<>>
    /\ reqRead = ""
    /\ svcOutcome = ""
    /\ hijackOK = FALSE
    /\ subChan = <<>>
    /\ hPc = "idle"
    /\ hVersion = 0
    /\ hLog = <<>>

TableIdle ==
    /\ tblIn = <<>>
    /\ tblQuery = <<>>
    /\ tblPc = "idle"
    /\ tblText = <<>>
    /\ tblParsed = <<>>
    /\ tblOnce = <<>>
    /\ tblTwice = <<>>

ServerIdle ==
    /\ srvRunning = FALSE
    /\ srvListener = FALSE
    /\ srvSocket = "none"
    /\ lsPc = "off"
    /\ lsErr = FALSE
    /\ clPc = <<>>
    /\ srvConns = <<>>

RtspIdle ==
    /\ rtspIssued = 0
    /\ rtspReq = <<>>
    /\ rtspSession = <<>>
    /\ rtspLog = <<>>

Init ==
    BrokerInit /\ FanIdle /\ CasterInit /\ HandlerIdle /\ TableIdle /\ ServerIdle /\ RtspIdle

\* ----------------------------------------------------------- the registry
\* Authoriser.Authorise: (authorised, err).
Authorise(cred) ==
    CASE cred = "valid"   -> [authorised |-> TRUE,  err |-> FALSE]
      [] cred = "invalid" -> [authorised |-> FALSE, err |-> FALSE]
      [] OTHER            -> [authorised |-> FALSE, err |-> TRUE]

\* An admission check that reads only the verdict, not the error.
AuthResultErrAsDenial(cred) ==
    IF Authorise(cred).authorised THEN "ok" ELSE "unauthorized"

\* An admission check without the branch for authorised = false.
AuthResultNoDenial(cred) ==
    IF Authorise(cred).err THEN "error" ELSE "ok"

\* The admission check Publisher and Subscriber start with.
AuthResult(cred) ==
    IF Authorise(cred).err THEN "error"
    ELSE IF ~Authorise(cred).authorised THEN "unauthorized"
    ELSE "ok"

\* _, ok := ss.mounts[mount]
MountOnline(ms, m) == m \in DOMAIN ms

\* ss.mounts[mount] = list
SetMount(ms, m, list) == [x \in DOMAIN ms \cup {m} |-> IF x = m THEN list ELSE ms[x]]

\* A delete that leaves the entry in place.
DeleteMountKeeps(ms, m) == ms

\* delete(ss.mounts, mount)
DeleteMount(ms, m) == [x \in DOMAIN ms \ {m} |-> ms[x]]

\* The pumps that created the entry of mount m and have not removed it yet.
PumpAlive(p) == pumpPc[p] \notin {"none", "done"}
OwnerOf(m) == {p \in Pubs : pubMount[p] = m /\ PumpAlive(p)}
\* The publisher a mount's entry belongs to (0: none) and the length of what
\* it has published.
Incumbent(m) == IF OwnerOf(m) = {} THEN 0 ELSE CHOOSE p \in OwnerOf(m) : TRUE
StreamLen(p) == IF p = 0 THEN 0 ELSE Len(pubStream[p])

\* Requests are numbered in the order they arrive.  The population is two
\* publishers with one subscriber, or one publisher with two subscribers.
NextPub(p) ==
    /\ pubPc[p] = "idle"
    /\ \A q \in Pubs : q < p => pubPc[q] # "idle"
    /\ p = 1 \/ \A s \in Subs \ {1} : subPc[s] = "idle"
NextSub(s) ==
    /\ subPc[s] = "idle"
    /\ \A q \in Subs : q < s => subPc[q] # "idle"
    /\ s = 1 \/ \A p \in Pubs \ {1} : pubPc[p] = "idle"

\* ------------------------------------------------- Publisher (POST /mount)
\* handlePostMountV2 calls Publisher, which authorises before it locks.  On
\* an error the handler returns it and the server cancels the context.
PublishRequest(p, m, cred) ==
    /\ NextPub(p)
    /\ pubMount' = [pubMount EXCEPT ![p] = m]
    /\ pubCred' = [pubCred EXCEPT ![p] = cred]
    /\ IF AuthResult(cred) = "ok"
       THEN /\ pubPc' = [pubPc EXCEPT ![p] = "lock"]
            /\ UNCHANGED <<pubResult, pubCtx>>
       ELSE /\ pubPc' = [pubPc EXCEPT ![p] = "done"]
            /\ pubResult' = [pubResult EXCEPT ![p] = AuthResult(cred)]
            /\ pubCtx' = [pubCtx EXCEPT ![p] = TRUE]
    /\ UNCHANGED <<lock, mounts, written, pubPipe, pubClosed, pubStream, conflictAt>>
    /\ UNCHANGED <<pumpVars, subVars>>
    /\ UNCHANGED <<fanVars, casterVars, handlerVars, tableVars, serverVars, rtspVars>>

\* A Publisher without the check of ss.mounts[mount].
PublisherOutcomeUnchecked(ms, m) == "ok"

\* The error Publisher returns once it holds the mutex.
PublisherOutcome(ms, m) ==
    IF MountOnline(ms, m) THEN "conflict" ELSE "ok"

\* A Publisher that assigns the empty slice before it checks.
PublisherMountsReset(ms, m) == SetMount(ms, m, <<>>)

\* What Publisher does to ss.mounts once it holds the mutex.
PublisherMounts(ms, m) ==
    IF PublisherOutcome(ms, m) = "ok" THEN SetMount(ms, m, <<>>) ELSE ms

\* ss.Lock() ... return w, nil: the critical section has no blocking point.
PublisherLocked(p) ==
    /\ pubPc[p] = "lock"
    /\ lock = 0
    /\ mounts' = PublisherMounts(mounts, pubMount[p])
    /\ pubResult' = [pubResult EXCEPT ![p] = PublisherOutcome(mounts, pubMount[p])]
    /\ IF PublisherOutcome(mounts, pubMount[p]) = "ok"
       THEN /\ pubPc' = [pubPc EXCEPT ![p] = "copy"]
            /\ pumpPc' = [pumpPc EXCEPT ![p] = "loop"]
            /\ UNCHANGED <<pubCtx, conflictAt>>
       ELSE /\ pubPc' = [pubPc EXCEPT ![p] = "done"]
            /\ pubCtx' = [pubCtx EXCEPT ![p] = TRUE]
            /\ conflictAt' = [conflictAt EXCEPT ![p] =
                                StreamLen(Incumbent(pubMount[p]))]
            /\ UNCHANGED pumpPc
    /\ UNCHANGED <<lock, written, pubMount, pubCred, pubPipe, pubClosed, pubStream>>
    /\ UNCHANGED <<pumpBuf, pumpRest, pumpActive, subVars>>
    /\ UNCHANGED <<fanVars, casterVars, handlerVars, tableVars, serverVars, rtspVars>>

\* io.Copy(pub, r.Body) read a chunk from the request body and calls
\* pub.Write, which blocks until the pump has read the chunk.
PubWrite(p) ==
    /\ pubPc[p] = "copy"
    /\ written < MaxChunks
    /\ pubPipe' = [pubPipe EXCEPT ![p] = <<p, Len(pubStream[p]) + 1>>]
    /\ written' = written + 1
    /\ pubPc' = [pubPc EXCEPT ![p] = "write"]
    /\ UNCHANGED <<lock, mounts, pubMount, pubCred, pubResult, pubCtx, pubClosed, pubStream,
                   conflictAt>>
    /\ UNCHANGED <<pumpVars, subVars>>
    /\ UNCHANGED <<fanVars, casterVars, handlerVars, tableVars, serverVars, rtspVars>>

\* The request body ends or fails: io.Copy returns, the deferred pub.Close()
\* runs, the handler returns and the server cancels the request context.
PubClose(p) ==
    /\ pubPc[p] = "copy"
    /\ pubPc' = [pubPc EXCEPT ![p] = "done"]
    /\ pubClosed' = [pubClosed EXCEPT ![p] = TRUE]
    /\ pubCtx' = [pubCtx EXCEPT ![p] = TRUE]
    /\ UNCHANGED <<lock, mounts, written, pubMount, pubCred, pubResult, pubPipe, pubStream,
                   conflictAt>>
    /\ UNCHANGED <<pumpVars, subVars>>
    /\ UNCHANGED <<fanVars, casterVars, handlerVars, tableVars, serverVars, rtspVars>>

\* The publishing client goes away while its handler is blocked in pub.Write.
PubCancel(p) ==
    /\ pubPc[p] = "write"
    /\ ~pubCtx[p]
    /\ pubCtx' = [pubCtx EXCEPT ![p] = TRUE]
    /\ UNCHANGED <<lock, mounts, written, pubPc, pubMount, pubCred, pubResult, pubPipe,
                   pubClosed, pubStream, conflictAt>>
    /\ UNCHANGED <<pumpVars, subVars>>
    /\ UNCHANGED <<fanVars, casterVars, handlerVars, tableVars, serverVars, rtspVars>>

\* ------------------------------------------------------ the pump goroutine
\* select { case <-ctx.Done(): return; default: ... r.Read(buf) }
PumpLoop(p) ==
    /\ pumpPc[p] = "loop"
    /\ pumpPc' = [pumpPc EXCEPT ![p] = IF pubCtx[p] THEN "exit" ELSE "read"]
    /\ UNCHANGED <<lock, mounts, written, pubVars>>
    /\ UNCHANGED <<pumpBuf, pumpRest, pumpActive, subVars>>
    /\ UNCHANGED <<fanVars, casterVars, handlerVars, tableVars, serverVars, rtspVars>>

\* r.Read returns the pending chunk; the publisher's Write returns.
PumpRead(p) ==
    /\ pumpPc[p] = "read"
    /\ pubPipe[p] # NoChunk
    /\ pumpBuf' = [pumpBuf EXCEPT ![p] = pubPipe[p]]
    /\ pubStream' = [pubStream EXCEPT ![p] = Append(@, pubPipe[p])]
    /\ pubPipe' = [pubPipe EXCEPT ![p] = NoChunk]
    /\ pubPc' = [pubPc EXCEPT ![p] = "copy"]
    /\ pumpPc' = [pumpPc EXCEPT ![p] = "fan"]
    /\ UNCHANGED <<lock, mounts, written, pubMount, pubCred, pubResult, pubCtx, pubClosed,
                   conflictAt>>
    /\ UNCHANGED <<pumpRest, pumpActive, subVars>>
    /\ UNCHANGED <<fanVars, casterVars, handlerVars, tableVars, serverVars, rtspVars>>

\* r.Read returns io.EOF once the writer is closed.
PumpReadEOF(p) ==
    /\ pumpPc[p] = "read"
    /\ pubPipe[p] = NoChunk
    /\ pubClosed[p]
    /\ pumpPc' = [pumpPc EXCEPT ![p] = "exit"]
    /\ UNCHANGED <<lock, mounts, written, pubVars>>
    /\ UNCHANGED <<pumpBuf, pumpRest, pumpActive, subVars>>
    /\ UNCHANGED <<fanVars, casterVars, handlerVars, tableVars, serverVars, rtspVars>>

\* activeWriters after writer s was visited: kept when its Write succeeded.
KeepWriter(active, s, ok) == IF ok THEN Append(active, s) ELSE active

\* The range loop is over: ss.mounts[mount] = activeWriters; ss.Unlock().
FanOutDone(p, active) ==
    /\ mounts' = SetMount(mounts, pubMount[p], active)
    /\ lock' = 0
    /\ pumpBuf' = [pumpBuf EXCEPT ![p] = NoChunk]
    /\ pumpPc' = [pumpPc EXCEPT ![p] = "loop"]
    /\ pumpRest' = [pumpRest EXCEPT ![p] = <<>>]
    /\ pumpActive' = [pumpActive EXCEPT ![p] = <<>>]

\* ss.Lock() and the range expression ss.mounts[mount], evaluated once.
PumpFanOut(p) ==
    /\ pumpPc[p] = "fan"
    /\ lock = 0
    /\ IF mounts[pubMount[p]] = <<>>
       THEN FanOutDone(p, <<>>)
       ELSE /\ lock' = p
            /\ pumpRest' = [pumpRest EXCEPT ![p] = mounts[pubMount[p]]]
            /\ pumpActive' = [pumpActive EXCEPT ![p] = <<>>]
            /\ pumpPc' = [pumpPc EXCEPT ![p] = "write"]
            /\ UNCHANGED <<mounts, pumpBuf>>
    /\ UNCHANGED <<written, pubVars, subVars>>
    /\ UNCHANGED <<fanVars, casterVars, handlerVars, tableVars, serverVars, rtspVars>>

\* writer.Write(buf[:br]) on a subscriber's io.Pipe fails at once when the
\* pipe is closed and otherwise blocks until the reader goroutine is in
\* r.Read.
WriteReady(s) == subWClosed[s] \/ rdPc[s] = "read"

PumpWrite(p) ==
    /\ pumpPc[p] = "write"
    /\ LET s  == Head(pumpRest[p])
           ok == ~subWClosed[s]
           active == KeepWriter(pumpActive[p], s, ok)
       IN /\ WriteReady(s)
          /\ IF ok
             THEN /\ rdPc' = [rdPc EXCEPT ![s] = "send"]
                  /\ rdBuf' = [rdBuf EXCEPT ![s] = pumpBuf[p]]
             ELSE UNCHANGED <<rdPc, rdBuf>>
          /\ IF Tail(pumpRest[p]) = <<>>
             THEN FanOutDone(p, active)
             ELSE /\ pumpRest' = [pumpRest EXCEPT ![p] = Tail(@)]
                  /\ pumpActive' = [pumpActive EXCEPT ![p] = active]
                  /\ UNCHANGED <<lock, mounts, pumpPc, pumpBuf>>
    /\ UNCHANGED <<written, pubVars>>
    /\ UNCHANGED <<subPc, subMount, subCred, subResult, subWClosed, chan,
                   chanClosed, recv, subPub, joinAt>>
    /\ UNCHANGED <<fanVars, casterVars, handlerVars, tableVars, serverVars, rtspVars>>

\* The deferred cleanup: ss.Lock(); delete(ss.mounts, mount); ss.Unlock().
PumpCleanup(p) ==
    /\ pumpPc[p] = "exit"
    /\ lock = 0
    /\ mounts' = DeleteMount(mounts, pubMount[p])
    /\ pumpPc' = [pumpPc EXCEPT ![p] = "done"]
    /\ UNCHANGED <<lock, written, pubVars>>
    /\ UNCHANGED <<pumpBuf, pumpRest, pumpActive, subVars>>
    /\ UNCHANGED <<fanVars, casterVars, handlerVars, tableVars, serverVars, rtspVars>>

\* ------------------------------------------------- Subscriber (GET /mount)
SubscribeRequest(s, m, cred) ==
    /\ NextSub(s)
    /\ subMount' = [subMount EXCEPT ![s] = m]
    /\ subCred' = [subCred EXCEPT ![s] = cred]
    /\ IF AuthResult(cred) = "ok"
       THEN /\ subPc' = [subPc EXCEPT ![s] = "lock"]
            /\ UNCHANGED subResult
       ELSE /\ subPc' = [subPc EXCEPT ![s] = "done"]
            /\ subResult' = [subResult EXCEPT ![s] = AuthResult(cred)]
    /\ UNCHANGED <<lock, mounts, written, pubVars, pumpVars>>
    /\ UNCHANGED <<subWClosed, rdPc, rdBuf, chan, chanClosed, recv, subPub, joinAt>>
    /\ UNCHANGED <<fanVars, casterVars, handlerVars, tableVars, serverVars, rtspVars>>

\* ss.mounts[mount] = append(mw, w)
Register(ms, m, s) == SetMount(ms, m, Append(ms[m], s))

\* A Subscriber that appends without the check of ss.mounts[mount].
SubscriberMountsUnchecked(ms, m, s) ==
    SetMount(ms, m, Append(IF MountOnline(ms, m) THEN ms[m] ELSE <<>>, s))

\* What Subscriber does to ss.mounts once it holds the mutex.
SubscriberMounts(ms, m, s) ==
    IF MountOnline(ms, m) THEN Register(ms, m, s) ELSE ms

\* ss.Lock() ... return data, nil: registers the pipe writer and starts the
\* closer and the reader goroutines; the reader blocks in r.Read.
SubscriberLocked(s) ==
    /\ subPc[s] = "lock"
    /\ lock = 0
    /\ mounts' = SubscriberMounts(mounts, subMount[s], s)
    /\ IF MountOnline(mounts, subMount[s])
       THEN /\ subPc' = [subPc EXCEPT ![s] = "stream"]
            /\ subResult' = [subResult EXCEPT ![s] = "ok"]
            /\ rdPc' = [rdPc EXCEPT ![s] = "read"]
            /\ subPub' = [subPub EXCEPT ![s] = Incumbent(subMount[s])]
            /\ joinAt' = [joinAt EXCEPT ![s] = StreamLen(Incumbent(subMount[s]))]
       ELSE /\ subPc' = [subPc EXCEPT ![s] = "done"]
            /\ subResult' = [subResult EXCEPT ![s] = "notfound"]
            /\ UNCHANGED <<rdPc, subPub, joinAt>>
    /\ UNCHANGED <<lock, written, pubVars, pumpVars>>
    /\ UNCHANGED <<subMount, subCred, subWClosed, rdBuf, chan, chanClosed, recv>>
    /\ UNCHANGED <<fanVars, casterVars, handlerVars, tableVars, serverVars, rtspVars>>

\* The reader goroutine: r.Read returned a chunk, which it copies and sends,
\* select { case data <- dataCopy: ... }, before it loops into r.Read again.
ReaderSend(s) ==
    /\ rdPc[s] = "send"
    /\ Len(chan[s]) < ChanCap
    /\ chan' = [chan EXCEPT ![s] = Append(@, rdBuf[s])]
    /\ rdBuf' = [rdBuf EXCEPT ![s] = NoChunk]
    /\ rdPc' = [rdPc EXCEPT ![s] = "read"]
    /\ UNCHANGED <<lock, mounts, written, pubVars, pumpVars>>
    /\ UNCHANGED <<subPc, subMount, subCred, subResult, subWClosed, chanClosed,
                   recv, subPub, joinAt>>
    /\ UNCHANGED <<fanVars, casterVars, handlerVars, tableVars, serverVars, rtspVars>>

\* ------------------------------------------- the handler's write loop
\* The write loop returns with the given reason and the server cancels the
\* request context (or the client went away, which cancels the context and
\* makes the loop return).  Every goroutine of the subscriber watches that
\* context: the closer calls w.Close(); the reader returns from r.Read with
\* io.EOF or from either select through ctx.Done(), and its deferred
\* close(data) runs.  The chunks still buffered are dropped.
Teardown(s, why) ==
    /\ subPc' = [subPc EXCEPT ![s] = "done"]
    /\ subResult' = [subResult EXCEPT ![s] = why]
    /\ subWClosed' = [subWClosed EXCEPT ![s] = TRUE]
    /\ rdPc' = [rdPc EXCEPT ![s] = "done"]
    /\ rdBuf' = [rdBuf EXCEPT ![s] = NoChunk]
    /\ chan' = [chan EXCEPT ![s] = <<>>]
    /\ chanClosed' = [chanClosed EXCEPT ![s] = @ + 1]

\* case data, ok := <-c: a chunk is written and flushed, or the channel is
\* closed and drained and the loop returns.
SubReceive(s) ==
    /\ subPc[s] = "stream"
    /\ IF chan[s] # <<>>
       THEN /\ chan' = [chan EXCEPT ![s] = Tail(@)]
            /\ recv' = [recv EXCEPT ![s] = Append(@, Head(chan[s]))]
            /\ UNCHANGED <<subPc, subResult, subWClosed, rdPc, rdBuf, chanClosed>>
       ELSE /\ chanClosed[s] > 0
            /\ Teardown(s, "closed")
            /\ UNCHANGED recv
    /\ UNCHANGED <<lock, mounts, written, pubVars, pumpVars>>
    /\ UNCHANGED <<subMount, subCred, subPub, joinAt>>
    /\ UNCHANGED <<fanVars, casterVars, handlerVars, tableVars, serverVars, rtspVars>>

\* ... the write or the flush of a chunk fails (write deadline, broken
\* socket) and the loop returns.
SubWriteFail(s) ==
    /\ subPc[s] = "stream"
    /\ chan[s] # <<>>
    /\ Teardown(s, "writefail")
    /\ UNCHANGED <<lock, mounts, written, pubVars, pumpVars>>
    /\ UNCHANGED <<subMount, subCred, recv, subPub, joinAt>>
    /\ UNCHANGED <<fanVars, casterVars, handlerVars, tableVars, serverVars, rtspVars>>

\* case <-ctx.Done(): the subscribing client went away.
SubCancel(s) ==
    /\ subPc[s] = "stream"
    /\ Teardown(s, "cancelled")
    /\ UNCHANGED <<lock, mounts, written, pubVars, pumpVars>>
    /\ UNCHANGED <<subMount, subCred, recv, subPub, joinAt>>
    /\ UNCHANGED <<fanVars, casterVars, handlerVars, tableVars, serverVars, rtspVars>>

\* ---------------------------------------------------------- specification
Next ==
    \/ \E p \in Pubs, m \in Mounts, c \in Creds : PublishRequest(p, m, c)
    \/ \E p \in Pubs : PublisherLocked(p)
    \/ \E p \in Pubs : PubWrite(p)
    \/ \E p \in Pubs : PubClose(p)
    \/ \E p \in Pubs : PubCancel(p)
    \/ \E p \in Pubs : PumpLoop(p)
    \/ \E p \in Pubs : PumpRead(p)
    \/ \E p \in Pubs : PumpReadEOF(p)
    \/ \E p \in Pubs : PumpFanOut(p)
    \/ \E p \in Pubs : PumpWrite(p)
    \/ \E p \in Pubs : PumpCleanup(p)
    \/ \E s \in Subs, m \in Mounts, c \in Creds : SubscribeRequest(s, m, c)
    \/ \E s \in Subs : SubscriberLocked(s)
    \/ \E s \in Subs : ReaderSend(s)
    \/ \E s \in Subs : SubReceive(s)
    \/ \E s \in Subs : SubWriteFail(s)
    \/ \E s \in Subs : SubCancel(s)

Spec == Init /\ [][Next]_vars

\* ===================================== the fan-out of the first Publisher
\* Range(q): the elements of a sequence.
Range(q) == {q[k] : k \in 1..Len(q)}

\* The slices Subscriber can have built: writers in any order, none twice.
WriterLists ==
    {q \in UNION {[1..n -> Writers] : n \in 0..NumWriters} :
        \A i, j \in 1..Len(q) : i # j => q[i] # q[j]}

\* ss.mounts[mount]
FanSlice == SubSeq(fanArray, 1, fanLen)

FanOutInit ==
    /\ BrokerInit
    /\ CasterInit
    /\ HandlerIdle
    /\ TableIdle
    /\ ServerIdle
    /\ RtspIdle
    /\ fanPc = "lock"
    /\ fanMutex = "free"
    /\ fanOnline = TRUE
    /\ fanArray \in WriterLists
    /\ fanLen = Len(fanArray)
    /\ fanN = 0
    /\ fanI = 0
    /\ fanClosed \in SUBSET Writers
    /\ fanWrites = [w \in Writers |-> 0]
    /\ fanBefore = fanArray

\* ss.Lock(); for i, w := range ss.mounts[mount]: the range expression is
\* evaluated once, its length fixed for the loop.
FanLock ==
    /\ fanPc = "lock"
    /\ fanMutex = "free"
    /\ fanMutex' = "pump"
    /\ fanPc' = "range"
    /\ fanN' = fanLen
    /\ fanI' = 1
    /\ UNCHANGED <<fanOnline, fanArray, fanLen, fanClosed, fanWrites, fanBefore>>
    /\ UNCHANGED <<brokerVars, casterVars, handlerVars, tableVars, serverVars, rtspVars>>

\* append(s[:i], s[i+1:]...) with i = idx - 1 on a slice of length len: the
\* elements after idx move down one place in the shared backing array, whose
\* last occupied cell keeps its old content.
RemoveAt(arr, len, idx) ==
    [k \in 1..Len(arr) |-> IF k >= idx /\ k < len THEN arr[k + 1] ELSE arr[k]]

\* One iteration: w is read from the backing array at index i.  A failed
\* Write re-slices the map's slice in place; s[i+1:] panics when i+1 exceeds
\* the current length.
FanVisit ==
    /\ fanPc = "range"
    /\ fanI <= fanN
    /\ IF fanArray[fanI] \notin fanClosed
       THEN /\ fanWrites' = [fanWrites EXCEPT ![fanArray[fanI]] = @ + 1]
            /\ fanI' = fanI + 1
            /\ UNCHANGED <<fanPc, fanArray, fanLen>>
       ELSE IF fanI > fanLen
            THEN /\ fanPc' = "panic"
                 /\ UNCHANGED <<fanArray, fanLen, fanI, fanWrites>>
            ELSE /\ fanArray' = RemoveAt(fanArray, fanLen, fanI)
                 /\ fanLen' = fanLen - 1
                 /\ fanI' = fanI + 1
                 /\ UNCHANGED <<fanPc, fanWrites>>
    /\ UNCHANGED <<fanMutex, fanOnline, fanN, fanClosed, fanBefore>>
    /\ UNCHANGED <<brokerVars, casterVars, handlerVars, tableVars, serverVars, rtspVars>>

\* The loop is over: ss.Unlock().
FanUnlock ==
    /\ fanPc = "range"
    /\ fanI > fanN
    /\ fanPc' = "done"
    /\ fanMutex' = "free"
    /\ UNCHANGED <<fanOnline, fanArray, fanLen, fanN, fanI, fanClosed, fanWrites, fanBefore>>
    /\ UNCHANGED <<brokerVars, casterVars, handlerVars, tableVars, serverVars, rtspVars>>

\* A subscriber's closer goroutine runs w.Close(); it takes no lock.
FanClose(w) ==
    /\ fanPc \in {"lock", "range"}
    /\ w \notin fanClosed
    /\ fanClosed' = fanClosed \cup {w}
    /\ UNCHANGED <<fanPc, fanMutex, fanOnline, fanArray, fanLen, fanN, fanI, fanWrites,
                   fanBefore>>
    /\ UNCHANGED <<brokerVars, casterVars, handlerVars, tableVars, serverVars, rtspVars>>

\* A Publisher or Subscriber call for the mount: ss.Lock(), and the lookup
\* ss.mounts[mount] under it.
FanCallLock ==
    /\ fanPc \in {"lock", "range", "done"}
    /\ fanMutex = "free"
    /\ fanMutex' = "call"
    /\ UNCHANGED <<fanPc, fanOnline, fanArray, fanLen, fanN, fanI, fanClosed, fanWrites,
                   fanBefore>>
    /\ UNCHANGED <<brokerVars, casterVars, handlerVars, tableVars, serverVars, rtspVars>>

\* The call returns: the deferred ss.Unlock().
FanCallUnlock ==
    /\ fanMutex = "call"
    /\ fanMutex' = "free"
    /\ UNCHANGED <<fanPc, fanOnline, fanArray, fanLen, fanN, fanI, fanClosed, fanWrites,
                   fanBefore>>
    /\ UNCHANGED <<brokerVars, casterVars, handlerVars, tableVars, serverVars, rtspVars>>

\* The pump is back in r.Read and the publisher has closed its writer: Read
\* returns an error and the pump runs delete(ss.mounts, mount) and returns; it
\* takes no lock for it.  When a call holds the mutex and is reading the map
\* at that moment, the runtime either lets both through or stops the process
\* ("concurrent map read and map write").
FanReadErr ==
    /\ fanPc = "done"
    /\ fanOnline' = FALSE
    /\ fanPc' \in (IF fanMutex = "call" THEN {"gone", "fatal"} ELSE {"gone"})
    /\ UNCHANGED <<fanMutex, fanArray, fanLen, fanN, fanI, fanClosed, fanWrites, fanBefore>>
    /\ UNCHANGED <<brokerVars, casterVars, handlerVars, tableVars, serverVars, rtspVars>>

FanOutNext ==
    \/ FanLock
    \/ FanVisit
    \/ FanUnlock
    \/ \E w \in Writers : FanClose(w)
    \/ FanCallLock
    \/ FanCallUnlock
    \/ FanReadErr

SpecFanOut == FanOutInit /\ [][FanOutNext]_vars

\* ====================================================== the caster package
\* Caster.AddMountpoint: the value stored for the path, and the error.
AddMountpoint(ms, m, c) == IF MountOnline(ms, m) THEN ms ELSE SetMount(ms, m, c)
AddMountpointErr(ms, m) == MountOnline(ms, m)

\* Caster.GetMountpoint: the source of the Mountpoint stored, 0 for nil.
GetMountpoint(ms, m) == IF MountOnline(ms, m) THEN ms[m] ELSE 0

\* RequestHandler, POST: AddMountpoint, then 409 or Broadcast.
CasterPost(c, m) ==
    /\ srcPc[c] = "idle"
    /\ \A d \in Sources : d < c => srcPc[d] # "idle"
    /\ srcMount' = [srcMount EXCEPT ![c] = m]
    /\ casterMounts' = AddMountpoint(casterMounts, m, c)
    /\ srcPc' = [srcPc EXCEPT ![c] =
                   IF AddMountpointErr(casterMounts, m) THEN "conflict" ELSE "broadcast"]
    /\ UNCHANGED <<srcStream, subscribers, cliPc, cliSrc, cliJoin, channel,
                   cliRecv, broadcasts>>
    /\ UNCHANGED <<brokerVars, fanVars, handlerVars, tableVars, serverVars, rtspVars>>

\* select { case subscriber.Channel() <- data: default: }: the chunk is
\* queued when the channel has room and skipped for that subscriber when not.
Offer(ch, data) == IF Len(ch) < ConnChanCap THEN Append(ch, data) ELSE ch

\* Mountpoint.Broadcast, one round: a chunk is read from the request body
\* and offered to every registered subscriber under mount.RLock().
CasterBroadcast(c) ==
    /\ srcPc[c] = "broadcast"
    /\ broadcasts < MaxChunks
    /\ broadcasts' = broadcasts + 1
    /\ srcStream' = [srcStream EXCEPT ![c] = Append(@, <<c, Len(@) + 1>>)]
    /\ channel' = [s \in Clients |->
                     IF s \in subscribers[c]
                     THEN Offer(channel[s], <<c, Len(srcStream[c]) + 1>>)
                     ELSE channel[s]]
    /\ UNCHANGED <<casterMounts, srcPc, srcMount, subscribers, cliPc, cliSrc,
                   cliJoin, cliRecv>>
    /\ UNCHANGED <<brokerVars, fanVars, handlerVars, tableVars, serverVars, rtspVars>>

\* Broadcast returns (body read error, timeout, context done) and the handler
\* calls DeleteMountpoint and returns.
CasterSourceGone(c) ==
    /\ srcPc[c] = "broadcast"
    /\ srcPc' = [srcPc EXCEPT ![c] = "gone"]
    /\ casterMounts' = DeleteMount(casterMounts, srcMount[c])
    /\ UNCHANGED <<srcMount, srcStream, subscribers, cliPc, cliSrc, cliJoin,
                   channel, cliRecv, broadcasts>>
    /\ UNCHANGED <<brokerVars, fanVars, handlerVars, tableVars, serverVars, rtspVars>>

\* RequestHandler, GET: GetMountpoint, then 404 or RegisterSubscriber.
CasterGet(s, m) ==
    /\ cliPc[s] = "idle"
    /\ \A d \in Clients : d < s => cliPc[d] # "idle"
    /\ IF GetMountpoint(casterMounts, m) = 0
       THEN /\ cliPc' = [cliPc EXCEPT ![s] = "notfound"]
            /\ UNCHANGED <<subscribers, cliSrc, cliJoin>>
       ELSE /\ cliPc' = [cliPc EXCEPT ![s] = "stream"]
            /\ subscribers' = [subscribers EXCEPT
                                 ![GetMountpoint(casterMounts, m)] = @ \cup {s}]
            /\ cliSrc' = [cliSrc EXCEPT ![s] = GetMountpoint(casterMounts, m)]
            /\ cliJoin' = [cliJoin EXCEPT ![s] =
                             Len(srcStream[GetMountpoint(casterMounts, m)])]
    /\ UNCHANGED <<casterMounts, srcPc, srcMount, srcStream, channel, cliRecv,
                   broadcasts>>
    /\ UNCHANGED <<brokerVars, fanVars, handlerVars, tableVars, serverVars, rtspVars>>

\* case data, _ := <-conn.channel: the chunk is written and flushed.
CasterClientWrite(s) ==
    /\ cliPc[s] = "stream"
    /\ channel[s] # <<>>
    /\ cliRecv' = [cliRecv EXCEPT ![s] = Append(@, Head(channel[s]))]
    /\ channel' = [channel EXCEPT ![s] = Tail(@)]
    /\ UNCHANGED <<casterMounts, srcPc, srcMount, srcStream, subscribers, cliPc,
                   cliSrc, cliJoin, broadcasts>>
    /\ UNCHANGED <<brokerVars, fanVars, handlerVars, tableVars, serverVars, rtspVars>>

\* case <-conn.Request.Context().Done(): DeregisterSubscriber and return.
CasterClientGone(s) ==
    /\ cliPc[s] = "stream"
    /\ cliPc' = [cliPc EXCEPT ![s] = "done"]
    /\ subscribers' = [subscribers EXCEPT ![cliSrc[s]] = @ \ {s}]
    /\ UNCHANGED <<casterMounts, srcPc, srcMount, srcStream, cliSrc, cliJoin,
                   channel, cliRecv, broadcasts>>
    /\ UNCHANGED <<brokerVars, fanVars, handlerVars, tableVars, serverVars, rtspVars>>

\* case <-mount.Source.Request.Context().Done(): return; the source's
\* context is done once its handler has returned.
CasterClientSourceGone(s) ==
    /\ cliPc[s] = "stream"
    /\ srcPc[cliSrc[s]] = "gone"
    /\ cliPc' = [cliPc EXCEPT ![s] = "done"]
    /\ UNCHANGED <<casterMounts, srcPc, srcMount, srcStream, subscribers, cliSrc,
                   cliJoin, channel, cliRecv, broadcasts>>
    /\ UNCHANGED <<brokerVars, fanVars, handlerVars, tableVars, serverVars, rtspVars>>

CasterNext ==
    \/ \E c \in Sources, m \in Mounts : CasterPost(c, m)
    \/ \E c \in Sources : CasterBroadcast(c)
    \/ \E c \in Sources : CasterSourceGone(c)
    \/ \E s \in Clients, m \in Mounts : CasterGet(s, m)
    \/ \E s \in Clients : CasterClientWrite(s)
    \/ \E s \in Clients : CasterClientGone(s)
    \/ \E s \in Clients : CasterClientSourceGone(s)

SpecCaster == Init /\ [][CasterNext]_vars

\* ================================================================ properties
\* The subscriber's queue is full and its reader goroutine holds one more
\* chunk it cannot send: r.Read is not being called, so a Write on the
\* subscriber's pipe does not return.
Stalled(s) == ~subWClosed[s] /\ rdPc[s] = "send" /\ Len(chan[s]) >= ChanCap

\* Pump p is inside writer.Write for subscriber s, which is stalled.
BlockedOn(p, s) ==
    pumpPc[p] = "write" /\ Head(pumpRest[p]) = s /\ Stalled(s)

\* ---- C1
\* C1: for every mount at most one publisher is attached at any instant: at
\* most one pump created by a successful Publisher call is alive per mount,
\* and the mount has an entry exactly while such a pump is alive.
AtMostOnePublisher ==
    \A m \in Mounts :
        /\ Cardinality(OwnerOf(m)) <= 1
        /\ MountOnline(mounts, m) <=> OwnerOf(m) # {}

\* Two publish requests for one mount raced; one is attached, the other was
\* refused while the first was still online.
SecondPublisherRefused ==
    \E p, q \in Pubs :
        /\ p # q
        /\ pubMount[p] = pubMount[q]
        /\ PumpAlive(p)
        /\ pubResult[p] = "ok"
        /\ pubResult[q] = "conflict"

\* ---- C2
\* Publish request q completes its critical section on a mount that is online.
ConflictStep(q) ==
    /\ pubPc[q] = "lock"
    /\ pubPc'[q] # "lock"
    /\ MountOnline(mounts, pubMount[q])

\* C2: a publish request on a mount that is online returns Conflict and
\* changes nothing but the request's own handler state: the registry, the
\* incumbent's handler, pipe and pump, and every subscriber are as before.
ConflictLeavesIncumbent ==
    [][\A q \in Pubs :
          ConflictStep(q) =>
              /\ pubResult'[q] = "conflict"
              /\ pumpPc'[q] = "none"
              /\ mounts' = mounts
              /\ lock' = lock
              /\ pumpVars' = pumpVars
              /\ subVars' = subVars
              /\ pubStream' = pubStream
              /\ pubPipe' = pubPipe
              /\ \A p \in Pubs \ {q} :
                    /\ pubPc'[p] = pubPc[p]
                    /\ pubCtx'[p] = pubCtx[p]
                    /\ pubClosed'[p] = pubClosed[p]
                    /\ pubResult'[p] = pubResult[p]]_vars

\* A publish was refused, and a subscriber of the incumbent has since been
\* handed a chunk the incumbent wrote after the refusal.
DeliveredAfterConflict ==
    \E p, q \in Pubs, s \in Subs :
        /\ pubResult[q] = "conflict"
        /\ pubMount[q] = pubMount[p]
        /\ subPub[s] = p
        /\ \E k \in 1..Len(recv[s]) :
              recv[s][k][1] = p /\ recv[s][k][2] > conflictAt[q]

\* ---- C3
\* C3: after the publisher has detached and its pump has finished, every
\* subscriber still streaming from that mount either has data still on its
\* way to the handler or has its channel closed, so that its handler
\* reaches end-of-stream without the subscriber disconnecting.
DetachEndsStreams ==
    \A s \in Subs :
        (subPc[s] = "stream" /\ subPub[s] # 0 /\ pumpPc[subPub[s]] = "done")
            => (chan[s] # <<>> \/ rdPc[s] = "send" \/ chanClosed[s] > 0)

\* ---- C4
\* C4: once the mount's entry is removed, every subscriber that registered
\* with it has had its channel closed exactly once.
ClosedExactlyOnce ==
    \A s \in Subs :
        (subPub[s] # 0 /\ pumpPc[subPub[s]] = "done") => chanClosed[s] = 1

\* ---- C5
\* C5: a mount name is held only while the pump that took it is alive: no
\* entry outlives its pump, and a publish request that completes its
\* critical section when no pump is alive for the name succeeds.
NameReleased ==
    /\ [](\A m \in Mounts : MountOnline(mounts, m) => OwnerOf(m) # {})
    /\ [][\A q \in Pubs :
             (pubPc[q] = "lock" /\ pubPc'[q] # "lock" /\ OwnerOf(pubMount[q]) = {})
                 => (pubResult'[q] = "ok" /\ pumpPc'[q] = "loop")]_vars

\* A publisher came and went, and a later publish for the same name is
\* attached.
Republished ==
    \E p, q \in Pubs :
        /\ p # q
        /\ pubMount[p] = pubMount[q]
        /\ pubResult[p] = "ok"
        /\ pumpPc[p] = "done"
        /\ pubResult[q] = "ok"
        /\ PumpAlive(q)

\* ---- C6
\* C6: the pump never waits for a subscriber: it is never inside a Write for
\* a subscriber whose queue is full.
PumpNeverBlocks ==
    \A p \in Pubs, s \in Subs : ~BlockedOn(p, s)

\* ---- C7
\* C7: a subscriber that does not read cannot starve another one: no
\* subscriber that is ready to receive waits for the current chunk behind a
\* stalled subscriber of the same mount.
NoStarvation ==
    \A p \in Pubs, a, b \in Subs :
        ~ /\ a # b
          /\ BlockedOn(p, b)
          /\ a \in Range(Tail(pumpRest[p]))
          /\ rdPc[a] = "read"
          /\ chan[a] = <<>>

\* ---- C8
\* C8: a write error on one sink is local: in a round in which exactly one
\* registered writer is closed, the round does not panic, no writer is handed
\* the chunk twice, and when the round is over every other registered writer
\* was handed the chunk once and is still registered, and the closed one is
\* not.
WriteErrorIsLocal ==
    Cardinality(fanClosed \cap Range(fanBefore)) = 1 =>
        /\ fanPc # "panic"
        /\ \A w \in Writers : fanWrites[w] <= 1
        /\ fanPc = "done" =>
              /\ \A w \in Range(fanBefore) \ fanClosed :
                    fanWrites[w] = 1 /\ w \in Range(FanSlice)
              /\ \A w \in fanClosed : fanWrites[w] = 0 => w \notin Range(FanSlice)

\* ---- C9
\* C9: a pump does not hold the registry mutex against other mounts: while a
\* pump is delivering a chunk to a stalled subscriber, no publish or
\* subscribe request for a different mount is waiting for the mutex.
RegistryLockFree ==
    \A p \in Pubs :
        (lock = p /\ \E b \in Subs : BlockedOn(p, b)) =>
            /\ \A q \in Pubs : ~(pubPc[q] = "lock" /\ pubMount[q] # pubMount[p])
            /\ \A s \in Subs : ~(subPc[s] = "lock" /\ subMount[s] # pubMount[p])

\* ---- C10
\* C10: each subscriber receives the publisher's chunks in order, without
\* duplicate or gap, from the position the publisher's stream had when the
\* subscriber registered.
InPublisherOrder ==
    \A s \in Clients :
        \A k \in 1..Len(cliRecv[s]) :
            /\ cliJoin[s] + k <= Len(srcStream[cliSrc[s]])
            /\ cliRecv[s][k] = srcStream[cliSrc[s]][cliJoin[s] + k]

\* ---- C11
\* C11: there is no replay: every chunk a subscriber is handed was written by
\* the publisher after the subscriber registered, so its index in the
\* publisher's stream is greater than the stream's length at the join.
NoReplay ==
    \A s \in Subs :
        \A k \in 1..Len(recv[s]) : recv[s][k][2] > joinAt[s]

\* ---- C12
\* The mounts whose subscriber set holds the writer of subscriber s.
MountsOf(s) == {m \in DOMAIN mounts : s \in Range(mounts[m])}

\* C12: a subscriber is in the subscriber set of exactly one mount while it
\* is active and its mount is online, never in more than one, and in none
\* once it has disconnected.
SubscriberSetExact ==
    \A s \in Subs :
        /\ Cardinality(MountsOf(s)) <= 1
        /\ (subPc[s] = "stream" /\ PumpAlive(subPub[s])) => MountsOf(s) = {subMount[s]}
        /\ subPc[s] = "done" => MountsOf(s) = {}

\* ---- C13
\* Subscribe request s completes its critical section on a mount that is
\* offline.
OfflineSubscribeStep(s) ==
    /\ subPc[s] = "lock"
    /\ subPc'[s] # "lock"
    /\ ~MountOnline(mounts, subMount[s])

\* C13: a subscribe request for an offline mount is rejected with NotFound
\* and the mount stays offline: ss.mounts is unchanged (no entry is created,
\* no writer registered) and no goroutine is started for the subscriber.
OfflineSubscribeRejected ==
    [][\A s \in Subs :
          OfflineSubscribeStep(s) =>
              /\ subResult'[s] = "notfound"
              /\ subPc'[s] = "done"
              /\ mounts' = mounts
              /\ rdPc'[s] = "none"
              /\ MountsOf(s)' = {}]_vars

\* A subscribe request was answered NotFound and its mount is offline.
SubscribedOffline ==
    \E s \in Subs :
        /\ subResult[s] = "notfound"
        /\ ~MountOnline(mounts, subMount[s])
        /\ rdPc[s] = "none"

\* ---- C14
\* The Authoriser does not accept the credentials: it denies them or fails.
Denied(cred) ==
    cred # "" /\ (Authorise(cred).err \/ ~Authorise(cred).authorised)

\* C14: a publish or subscribe request that fails authorisation causes no
\* mount state transition: the step that serves it leaves ss.mounts as it
\* was, the request ends there, and it never owns a pump, a reader goroutine
\* or a place in a subscriber set.
AuthFailureNoTransition ==
    /\ [](\A p \in Pubs :
            Denied(pubCred[p]) => (pubPc[p] = "done" /\ pumpPc[p] = "none"))
    /\ [](\A s \in Subs :
            Denied(subCred[s]) =>
                (subPc[s] = "done" /\ rdPc[s] = "none" /\ MountsOf(s) = {}))
    /\ [][/\ \A p \in Pubs :
               (pubPc[p] = "idle" /\ Denied(pubCred'[p])) => mounts' = mounts
          /\ \A s \in Subs :
               (subPc[s] = "idle" /\ Denied(subCred'[s])) => mounts' = mounts]_vars

\* A publish and a subscribe request were both refused by the admission
\* check while a mount was online with a subscriber.
RefusedWhileOnline ==
    \E p \in Pubs, s \in Subs :
        /\ Denied(pubCred[p])
        /\ Denied(subCred[s])
        /\ pubResult[p] \in {"unauthorized", "error"}
        /\ subResult[s] \in {"unauthorized", "error"}
        /\ MountOnline(mounts, pubMount[p])
        /\ MountOnline(mounts, subMount[s])

\* ---- C15
\* ss.Sourcetable as an operator configures it (cmd/relay/relay.go sets
\* casters, networks and the mounts it expects): the entries by identifier.
\* One of the two mount names requests may carry is configured.
Sourcetable ==
    [cas |-> {"NTRIP Caster"}, net |-> {"EXAMPLE"}, str |-> {"TEST00AUS0"}]

\* SourceService.GetSourcetable: return ss.Sourcetable.
GetSourcetable(st) == st

\* C15: the sourcetable the service returns lists a mount if and only if the
\* mount is online at the time of the call, and returns the casters and
\* networks as configured.
SourcetableListsOnline ==
    /\ GetSourcetable(Sourcetable).cas = Sourcetable.cas
    /\ GetSourcetable(Sourcetable).net = Sourcetable.net
    /\ \A m \in Mounts :
          m \in GetSourcetable(Sourcetable).str <=> MountOnline(mounts, m)

\* ---- C16
\* Publisher p is attached and silent: its handler sits in io.Copy with
\* nothing written, nothing closed and the request context live, while the
\* pump waits in r.Read.
SilentPublisher(p) ==
    /\ pumpPc[p] = "read"
    /\ pubPc[p] = "copy"
    /\ pubPipe[p] = NoChunk
    /\ ~pubClosed[p]
    /\ ~pubCtx[p]

\* C16: when an attached publisher sends nothing for longer than the
\* read-timeout, the pump terminates (then the mount goes offline and the
\* subscribers observe end-of-stream): the pump of a silent publisher always
\* has a step of its own that takes it out of Read.
ReadTimeoutEndsPump ==
    \A p \in Pubs :
        SilentPublisher(p) => ENABLED (PumpRead(p) \/ PumpReadEOF(p))

\* ---- C17
\* C17: a publish request with valid credentials for a name that is not a
\* known mount returns NotFound and brings no mount online.
UnknownMountRejected ==
    \A p \in Pubs :
        (/\ pubCred[p] = "valid"
         /\ pubMount[p] \notin Sourcetable.str
         /\ pubPc[p] \notin {"idle", "lock"})
        => /\ pubResult[p] = "notfound"
           /\ pumpPc[p] = "none"

\* ---- C18
\* C18: when a client disconnects (its request context is cancelled) the
\* loop serving it exits promptly, without waiting for the other side: the
\* subscriber's write loop and bridging goroutines end in the step that
\* cancels (Teardown), and the pump of a publisher whose context is cancelled
\* is never held inside a Write to a stalled subscriber.
DisconnectEndsLoops ==
    /\ \A s \in Subs : subPc[s] = "done" => rdPc[s] \in {"none", "done"}
    /\ \A p \in Pubs :
          (pubCtx[p] /\ PumpAlive(p)) => \A s \in Subs : ~BlockedOn(p, s)

\* ------------------------------------------------ the HTTP front end
\* The error value a handler sees is the service's outcome; "nil" is no
\* error.  An http.ResponseWriter sends the status line with the first
\* WriteHeader or Flush and drops every later WriteHeader; hdr tells whether
\* a WWW-Authenticate header was set by then.
WriteHeader(wire, code, hdr) ==
    IF wire = <<>> THEN <<[code |-> code, authenticate |-> hdr]>> ELSE wire

\* w.(http.Flusher).Flush() sends the headers with the default status.
Flush(wire) == WriteHeader(wire, 200, FALSE)

\* handlePostMountV2: the error of Publisher is returned as it is; after a
\* successful attach the headers are flushed and nil is returned whatever
\* io.Copy said.
handlePostMountV2(outcome) ==
    IF outcome # "ok"
    THEN [err |-> outcome, wire |-> <<>>]
    ELSE [err |-> "nil", wire |-> Flush(<<>>)]

\* handleGetMountV2: the error of Subscriber is returned as it is; after a
\* successful attach the headers are flushed, and a failure to hijack the
\* connection is returned as an error of its own.
handleGetMountV2(outcome, hijacked) ==
    IF outcome # "ok"
    THEN [err |-> outcome, wire |-> <<>>]
    ELSE [err |-> IF hijacked THEN "nil" ELSE "error", wire |-> Flush(<<>>)]

\* The switch of handleRequestV2 with ErrorConflict left to the default.
handleRequestV2NoConflict(h) ==
    CASE h.err = "nil"          -> h.wire
      [] h.err = "unauthorized" -> WriteHeader(h.wire, 401, TRUE)
      [] h.err = "notfound"     -> WriteHeader(h.wire, 404, FALSE)
      [] OTHER                  -> WriteHeader(h.wire, 500, FALSE)

\* handleRequestV2: switch err { ... } on what the mount handler returned.
handleRequestV2(h) ==
    CASE h.err = "nil"          -> h.wire
      [] h.err = "unauthorized" -> WriteHeader(h.wire, 401, TRUE)
      [] h.err = "notfound"     -> WriteHeader(h.wire, 404, FALSE)
      [] h.err = "conflict"     -> WriteHeader(h.wire, 409, FALSE)
      [] OTHER                  -> WriteHeader(h.wire, 500, FALSE)

\* A v1 GET handler that tells only NotAuthorized apart.
handleGetMountV1AuthOnly(outcome) ==
    CASE outcome = "ok"           -> 200
      [] outcome = "unauthorized" -> 401
      [] OTHER                    -> 500

\* handleGetMountV1: the status of the synthetic response written to the
\* hijacked socket when Subscriber fails, "ICY 200 OK" otherwise.
handleGetMountV1(outcome) ==
    CASE outcome = "ok"           -> 200
      [] outcome = "unauthorized" -> 401
      [] outcome = "notfound"     -> 404
      [] OTHER                    -> 500

\* A v1 SOURCE listener without the branch for ErrorConflict.
handleConnectionNoConflict(outcome) ==
    CASE outcome = "ok"           -> "OK"
      [] outcome = "unauthorized" -> "ERROR - Not Authorized"
      [] outcome = "notfound"     -> "ERROR - Mount Point Does Not Exist"
      [] OTHER                    -> "ERROR - Internal Server Error"

\* Server.handleConnection: the line a v1 SOURCE request is answered with.
handleConnection(outcome) ==
    CASE outcome = "ok"           -> "OK"
      [] outcome = "unauthorized" -> "ERROR - Not Authorized"
      [] outcome = "notfound"     -> "ERROR - Mount Point Does Not Exist"
      [] outcome = "conflict"     -> "ERROR - Mount Point Already In Use"
      [] OTHER                    -> "ERROR - Internal Server Error"

\* The outcomes Publisher and Subscriber return to a handler.
Outcomes == {"ok", "unauthorized", "notfound", "conflict", "error"}

\* ---- C19
\* C19: a failure of the authoriser itself (as opposed to a denial) is
\* answered with the 500-equivalent on every path: HTTP 500 for a v2 POST or
\* GET and for a v1 GET, "ERROR - Internal Server Error" for a v1 SOURCE
\* request; never 401, 404 or 409.
AuthoriserErrorIs500 ==
    /\ \A p \in Pubs :
          (pubCred[p] # "" /\ Authorise(pubCred[p]).err)
          => /\ handleRequestV2(handlePostMountV2(pubResult[p]))
                  = <<[code |-> 500, authenticate |-> FALSE]>>
             /\ handleConnection(pubResult[p]) = "ERROR - Internal Server Error"
    /\ \A s \in Subs :
          (subCred[s] # "" /\ Authorise(subCred[s]).err)
          => /\ \A hijacked \in BOOLEAN :
                  handleRequestV2(handleGetMountV2(subResult[s], hijacked))
                      = <<[code |-> 500, authenticate |-> FALSE]>>
             /\ handleGetMountV1(subResult[s]) = 500

\* A publisher and a subscriber whose requests met a failing authoriser.
AuthoriserFailed ==
    \E p \in Pubs, s \in Subs :
        /\ pubCred[p] = "fail" /\ pubResult[p] = "error"
        /\ subCred[s] = "fail" /\ subResult[s] = "error"

\* ---- C20
\* C20: for a v2 GET or POST on a mount path the status is determined by the
\* outcome of the service call and is written exactly once: 200 on success,
\* 401 with a WWW-Authenticate challenge for NotAuthorized, 404 for NotFound,
\* 409 for Conflict, 500 for any other error.
StatusOf(outcome) ==
    CASE outcome = "ok"           -> [code |-> 200, authenticate |-> FALSE]
      [] outcome = "unauthorized" -> [code |-> 401, authenticate |-> TRUE]
      [] outcome = "notfound"     -> [code |-> 404, authenticate |-> FALSE]
      [] outcome = "conflict"     -> [code |-> 409, authenticate |-> FALSE]
      [] OTHER                    -> [code |-> 500, authenticate |-> FALSE]

StatusFollowsOutcome ==
    /\ \A p \in Pubs :
          pubResult[p] \in Outcomes
          => handleRequestV2(handlePostMountV2(pubResult[p]))
                 = <<StatusOf(pubResult[p])>>
    /\ \A s \in Subs :
          subResult[s] \in Outcomes
          => \A hijacked \in BOOLEAN :
                 handleRequestV2(handleGetMountV2(subResult[s], hijacked))
                     = <<StatusOf(subResult[s])>>

\* One publisher attached, a second one refused with Conflict and a
\* subscriber refused with NotFound.
EveryStatusAnswered ==
    \E p \in Pubs, q \in Pubs, s \in Subs :
        /\ pubResult[p] = "ok"
        /\ pubResult[q] = "conflict"
        /\ subResult[s] = "notfound"

\* ======================================================= the front end
\* A string the code inspects character by character is a sequence of
\* one-character strings.
\* strings.ToUpper on one character: the letters that occur in the header
\* values below; "dotless-i" stands for U+0131, whose upper case is "I".
ToUpperChar(c) ==
    CASE c = "n" -> "N"
      [] c = "t" -> "T"
      [] c = "r" -> "R"
      [] c = "i" -> "I"
      [] c = "p" -> "P"
      [] c = "dotless-i" -> "I"
      [] OTHER -> c

\* strings.ToUpper
ToUpper(s) == [k \in 1..Len(s) |-> ToUpperChar(s[k])]

\* NTRIPVersionHeaderValueV2 = "Ntrip/2.0"
NTRIPVersionHeaderValueV2 == <<"N", "t", "r", "i", "p", "/", "2", ".", "0">>

\* "Ntrip/2.0" with the letters at the positions in S in lower case and the
\* others in upper case.
InCase(S) ==
    [k \in 1..Len(NTRIPVersionHeaderValueV2) |->
        IF k \in S THEN <<"n", "t", "r", "i", "p", "/", "2", ".", "0">>[k]
        ELSE ToUpperChar(NTRIPVersionHeaderValueV2[k])]

\* Values r.Header.Get("Ntrip-Version") returns: every letter case of
\* "Ntrip/2.0", the empty string of a request without the header, other
\* versions, and a value with a letter outside ASCII.
VersionHeaders ==
    {InCase(S) : S \in SUBSET (1..5)}
        \cup {<<>>,
              <<"N", "t", "r", "i", "p", "/", "1", ".", "0">>,
              <<"N", "t", "r", "i", "p", "/", "2">>,
              <<"2", ".", "0">>,
              <<"N", "t", "r", "dotless-i", "p", "/", "2", ".", "0">>}

Methods == {"GET", "POST", "PUT"}
Paths == {"/", "/TEST00AUS0"}

\* First lines of a v1 SOURCE connection after TrimSpace and Split on " ".
SourceLines ==
    {<<"SOURCE", "password", "TEST00AUS0">>,
     <<"SOURCE", "", "password", "TEST00AUS0">>,
     <<"SOURCE", "password">>,
     <<"GET", "/TEST00AUS0", "HTTP/1.1">>,
     <<"">>}

\* One thing the handler did: a call of the service or an operation on the
\* ResponseWriter or the connection.  code is a status code or a chunk, text
\* the pieces of text written, close the Close field of a response.
Ev(op, code, text, close) ==
    [op |-> op, code |-> code, text |-> text, close |-> close]
Did(op) == Ev(op, 0, <<>>, FALSE)

\* The comparison without strings.ToUpper.
IsV2Exact(ver) == ver = NTRIPVersionHeaderValueV2

\* switch strings.ToUpper(r.Header.Get(NTRIPVersionHeaderKey))
\* case strings.ToUpper(NTRIPVersionHeaderValueV2)
IsV2(ver) == ToUpper(ver) = ToUpper(NTRIPVersionHeaderValueV2)

\* A request arrives at the HTTP handler.
HttpRequest ==
    /\ reqKind = "http"
    /\ reqVer \in VersionHeaders
    /\ reqMethod \in Methods
    /\ reqPath \in Paths
    /\ reqLine = <<>>
    /\ reqRead = ""
    /\ svcOutcome \in Outcomes
    /\ hijackOK \in BOOLEAN
    /\ subChan \in {[k \in 1..n |-> k] : n \in 0..MaxChunks}
    /\ hPc = "request"
    /\ hVersion = 0
    /\ hLog = <<>>

\* A connection arrives at the v1 SOURCE listener.
SourceRequest ==
    /\ reqKind = "source"
    /\ reqVer = <<>>
    /\ reqMethod = ""
    /\ reqPath = ""
    /\ reqLine \in SourceLines
    /\ reqRead \in {"nothing", "line", "all"}
    /\ svcOutcome \in Outcomes
    /\ hijackOK = FALSE
    /\ subChan = <<>>
    /\ hPc = "accept"
    /\ hVersion = 0
    /\ hLog = <<>>

HandlerInit ==
    /\ BrokerInit
    /\ FanIdle
    /\ CasterInit
    /\ TableIdle
    /\ ServerIdle
    /\ RtspIdle
    /\ (HttpRequest \/ SourceRequest)

\* What every step of the front end leaves alone.
HandlerFrame ==
    /\ UNCHANGED <<reqKind, reqVer, reqMethod, reqPath, reqLine, reqRead, svcOutcome,
                   hijackOK>>
    /\ UNCHANGED <<brokerVars, fanVars, casterVars, tableVars, serverVars, rtspVars>>

\* handler.handleRequest
handleRequest ==
    /\ hPc = "request"
    /\ hVersion' = IF IsV2(reqVer) THEN 2 ELSE 1
    /\ hPc' = IF IsV2(reqVer) THEN "v2" ELSE "v1"
    /\ UNCHANGED <<hLog, subChan>>
    /\ HandlerFrame

\* fmt.Sprintf("Basic realm=%q", r.URL.Path): the value of WWW-Authenticate.
Challenge(path) == <<"Basic realm=", "\"", path, "\"">>

\* The status line of a v2 response as an event.
Status(wire) ==
    Ev("WriteHeader", wire[1].code,
       IF wire[1].authenticate THEN Challenge(reqPath) ELSE <<>>, FALSE)

\* handler.handleRequestV2 and the mount handler it calls, up to the point
\* where the GET handler enters its write loop.
ServeV2 ==
    /\ hPc = "v2"
    /\ IF reqPath = "/"
       THEN /\ hLog' = hLog \o <<Did("Sourcetable")>>
            /\ hPc' = "done"
       ELSE IF reqMethod = "GET"
       THEN LET h == handleGetMountV2(svcOutcome, hijackOK)
            IN /\ hLog' = hLog \o <<Did("Subscriber"), Status(handleRequestV2(h))>>
                            \o (IF svcOutcome = "ok" /\ hijackOK
                                THEN <<Did("Hijack")>> ELSE <<>>)
               /\ hPc' = IF h.err = "nil" THEN "stream" ELSE "done"
       ELSE IF reqMethod = "POST"
       THEN LET h == handlePostMountV2(svcOutcome)
            IN /\ hLog' = hLog \o <<Did("Publisher"), Status(handleRequestV2(h))>>
                            \o (IF svcOutcome = "ok"
                                THEN <<Did("Copy"), Did("PublisherClose")>> ELSE <<>>)
               /\ hPc' = "done"
       ELSE /\ hLog' = hLog \o <<Ev("WriteHeader", 501, <<>>, FALSE)>>
            /\ hPc' = "done"
    /\ UNCHANGED <<hVersion, subChan>>
    /\ HandlerFrame

\* A v1 handler that lets every method through.
OnlyGetV1Any(method) == TRUE

\* if r.Method != http.MethodGet: "Can only support NTRIP v1 GET requests
\* with http.Server".
OnlyGetV1(method) == method = "GET"

\* handler.handleRequestV1 up to the call of the GET handler.  When the
\* hijack fails the handler writes 500 and goes on to defer
\* hrw.conn.Close() on a nil connection.
ServeV1 ==
    /\ hPc = "v1"
    /\ IF ~OnlyGetV1(reqMethod)
       THEN /\ hLog' = hLog \o <<Ev("WriteHeader", 501, <<>>, FALSE)>>
            /\ hPc' = "done"
       ELSE IF ~hijackOK
       THEN /\ hLog' = hLog \o <<Ev("WriteHeader", 500, <<>>, FALSE)>>
            /\ hPc' = "panic"
       ELSE IF reqPath = "/"
       THEN /\ hLog' = hLog \o <<Did("Hijack"), Did("Sourcetable"), Did("Flush"),
                                 Did("Close")>>
            /\ hPc' = "done"
       ELSE /\ hLog' = hLog \o <<Did("Hijack")>>
            /\ hPc' = "v1mount"
    /\ UNCHANGED <<hVersion, subChan>>
    /\ HandlerFrame

\* writeStatusV1: the synthetic response written to the hijacked socket,
\* with ProtoMajor 1, ProtoMinor 1, the WWW-Authenticate header and Close.
writeStatusV1(path, statusCode) ==
    Ev("Response", statusCode, <<"HTTP/1.1">> \o Challenge(path), TRUE)

\* []byte("ICY 200 OK\r\n")
ICYPreface == <<"I", "C", "Y", " ", "2", "0", "0", " ", "O", "K", "\r", "\n">>

\* handler.handleGetMountV1 up to the write loop; the Flush of the preface
\* may fail.  The deferred hrw.conn.Close() of handleRequestV1 runs on
\* every return.
ServeGetMountV1(flushed) ==
    /\ hPc = "v1mount"
    /\ IF svcOutcome # "ok"
       THEN /\ flushed
            /\ hLog' = hLog \o <<Did("Subscriber"),
                                 writeStatusV1(reqPath, handleGetMountV1(svcOutcome)),
                                 Did("Flush"), Did("Close")>>
            /\ hPc' = "done"
       ELSE IF ~flushed
       THEN /\ hLog' = hLog \o <<Did("Subscriber"),
                                 Ev("Write", 0, ICYPreface, FALSE),
                                 Did("Close")>>
            /\ hPc' = "done"
       ELSE /\ hLog' = hLog \o <<Did("Subscriber"),
                                 Ev("Write", 0, ICYPreface, FALSE),
                                 Did("Flush")>>
            /\ hPc' = "stream"
    /\ UNCHANGED <<hVersion, subChan>>
    /\ HandlerFrame

\* A write loop that leaves the chunk in the buffer: no Flush.
ChunkEventsNoFlush(data, failure) ==
    CASE failure = "deadline" -> <<Did("Close")>>
      [] failure = "write" -> <<Did("Deadline"), Did("Close")>>
      [] OTHER -> <<Did("Deadline"), Ev("Write", data, <<>>, FALSE)>>

\* What one iteration of write does with the chunk data: SetWriteDeadline,
\* Write, Flush, and the deferred hrw.conn.Close() after the first failure.
ChunkEvents(data, failure) ==
    CASE failure = "deadline" -> <<Did("Close")>>
      [] failure = "write" -> <<Did("Deadline"), Did("Close")>>
      [] failure = "flush" ->
           <<Did("Deadline"), Ev("Write", data, <<>>, FALSE), Did("Close")>>
      [] OTHER ->
           <<Did("Deadline"), Ev("Write", data, <<>>, FALSE), Did("Flush")>>

\* write: case data, ok := <-c with a chunk: SetWriteDeadline, Write, Flush;
\* the first of them that fails ends the loop.
writeChunk(failure) ==
    /\ hPc = "stream"
    /\ subChan # <<>>
    /\ subChan' = Tail(subChan)
    /\ hLog' = hLog \o ChunkEvents(Head(subChan), failure)
    /\ hPc' = IF failure = "none" THEN "stream" ELSE "done"
    /\ UNCHANGED hVersion
    /\ HandlerFrame

\* write: the channel is closed and drained (!ok), or case <-ctx.Done().
writeReturn(cancelled) ==
    /\ hPc = "stream"
    /\ cancelled \/ subChan = <<>>
    /\ hLog' = hLog \o <<Did("Close")>>
    /\ hPc' = "done"
    /\ UNCHANGED <<hVersion, subChan>>
    /\ HandlerFrame

\* Server.handleConnection up to the reply: the first line, the headers up
\* to the empty line, the Publisher call.  conn.Close() is deferred.
SourceConnection ==
    /\ hPc = "accept"
    /\ IF reqRead = "nothing"
       THEN /\ hLog' = hLog \o <<Did("Close")>>
            /\ hPc' = "done"
       ELSE IF Len(reqLine) < 3 \/ reqLine[1] # "SOURCE"
       THEN /\ hLog' = hLog \o <<Ev("WriteString", 0, <<"ERROR - Bad Request", "\r\n">>,
                                    FALSE),
                                 Did("Flush"), Did("Close")>>
            /\ hPc' = "done"
       ELSE IF reqRead = "line"
       THEN /\ hLog' = hLog \o <<Did("Close")>>
            /\ hPc' = "done"
       ELSE /\ hLog' = hLog \o <<Did("Publisher"),
                                 Ev("WriteString", 0,
                                    <<handleConnection(svcOutcome), "\r\n">>, FALSE),
                                 Did("Flush")>>
                            \o (IF svcOutcome = "ok" THEN <<>> ELSE <<Did("Close")>>)
            /\ hPc' = IF svcOutcome = "ok" THEN "copy" ELSE "done"
    /\ UNCHANGED <<hVersion, subChan>>
    /\ HandlerFrame

\* io.Copy(publisher, reader) returns; publisher.Close(); conn.Close().
SourceCopy ==
    /\ hPc = "copy"
    /\ hLog' = hLog \o <<Did("Copy"), Did("PublisherClose"), Did("Close")>>
    /\ hPc' = "done"
    /\ UNCHANGED <<hVersion, subChan>>
    /\ HandlerFrame

HandlerNext ==
    \/ handleRequest
    \/ ServeV2
    \/ ServeV1
    \/ \E flushed \in BOOLEAN : ServeGetMountV1(flushed)
    \/ \E failure \in {"none", "deadline", "write", "flush"} : writeChunk(failure)
    \/ \E cancelled \in BOOLEAN : writeReturn(cancelled)
    \/ SourceConnection
    \/ SourceCopy

SpecHandler == HandlerInit /\ [][HandlerNext]_vars

\* ---- C21
\* The request carries a method its protocol version does not serve: not
\* GET or POST on a v2 mount path, not GET for v1.
UnsupportedMethod ==
    /\ reqKind = "http"
    /\ \/ hVersion = 2 /\ reqPath # "/" /\ reqMethod \notin {"GET", "POST"}
       \/ hVersion = 1 /\ reqMethod # "GET"

\* C21: a request with an unsupported method is answered 501 without a call
\* of Publisher or Subscriber, and for v1 the 501 is written before the
\* connection is hijacked: the 501 is all the handler does.
UnsupportedMethodIs501 ==
    UnsupportedMethod =>
        /\ hPc \in {"v1", "v2", "done"}
        /\ hPc = "done" => hLog = <<Ev("WriteHeader", 501, <<>>, FALSE)>>
        /\ hPc # "done" => hLog = <<>>

\* A v1 POST has been answered.
V1PostAnswered ==
    UnsupportedMethod /\ hVersion = 1 /\ reqMethod = "POST" /\ hPc = "done"

PrefaceAt == {k \in 1..Len(hLog) : hLog[k].op = "Write" /\ hLog[k].text = ICYPreface}
ChunkAt == {k \in 1..Len(hLog) : hLog[k].op = "Write" /\ hLog[k].code > 0}

\* C23: on a v1 subscribe the 12 bytes "ICY 200 OK\r\n" are written and
\* flushed before any stream chunk and only when the Subscriber call
\* succeeded; after that each chunk is written and flushed, in the order in
\* which it came from the subscriber channel.
PrefaceThenChunksInOrder ==
    hVersion = 1 =>
        /\ Len(ICYPreface) = 12
        /\ Cardinality(PrefaceAt) <= 1
        /\ \A k \in PrefaceAt :
              /\ svcOutcome = "ok"
              /\ k > 1 /\ hLog[k - 1].op = "Subscriber"
        /\ \A k \in ChunkAt :
              /\ \E i \in PrefaceAt : i + 1 < k /\ hLog[i + 1].op = "Flush"
              /\ hLog[k].code = Cardinality({j \in ChunkAt : j <= k})
              /\ k < Len(hLog) /\ hLog[k + 1].op \in {"Flush", "Close"}
              /\ hLog[k + 1].op = "Close" => hPc = "done"
        /\ hPc = "stream" => PrefaceAt # {}

\* A v1 subscriber has received the preface and two chunks.
V1StreamedTwo ==
    hVersion = 1 /\ Cardinality(ChunkAt) = 2 /\ hLog[Len(hLog)].op = "Flush"

\* ---- C24
\* A v1 subscribe on a mount path that the service rejected, answered.
V1SubscribeRejected ==
    /\ hVersion = 1
    /\ reqMethod = "GET"
    /\ reqPath # "/"
    /\ hijackOK
    /\ svcOutcome # "ok"
    /\ hPc = "done"

\* C24: a rejected v1 subscribe receives exactly one synthetic HTTP/1.1
\* error frame and no ICY preface: 401 for NotAuthorized, 404 for NotFound,
\* 500 for any other error, each with a WWW-Authenticate Basic challenge
\* whose realm is the request path and with Connection: close; then the
\* connection is closed.
RejectedV1GetsOneFrame ==
    V1SubscribeRejected =>
        /\ PrefaceAt = {}
        /\ hLog = <<Did("Hijack"), Did("Subscriber"),
                    Ev("Response",
                       CASE svcOutcome = "unauthorized" -> 401
                         [] svcOutcome = "notfound" -> 404
                         [] OTHER -> 500,
                       <<"HTTP/1.1", "Basic realm=", "\"", reqPath, "\"">>, TRUE),
                    Did("Flush"), Did("Close")>>

\* A v1 subscribe for a mount that is not online was answered.
V1NotFoundAnswered == V1SubscribeRejected /\ svcOutcome = "notfound"

\* ---- C25
\* Positions of hLog at which a reply line is written, respectively the
\* connection closed.
ReplyAt == {k \in 1..Len(hLog) : hLog[k].op = "WriteString"}
CloseAt == {k \in 1..Len(hLog) : hLog[k].op = "Close"}

\* The first line is not "SOURCE <password> <mount>".
Malformed == Len(reqLine) < 3 \/ reqLine[1] # "SOURCE"

\* C25: every v1 SOURCE connection whose request is fully read receives
\* exactly one reply line determined by the outcome, "OK" on success,
\* "ERROR - Bad Request" for a malformed first line, or the ERROR line of the
\* service's error, terminated by CRLF; the connection is closed on every
\* path.
SourceGetsOneReply ==
    (reqKind = "source" /\ hPc # "accept") =>
        /\ hPc = "done" => (CloseAt = {Len(hLog)})
        /\ hPc = "copy" => (CloseAt = {} /\ svcOutcome = "ok")
        /\ Cardinality(ReplyAt) <= 1
        /\ (reqRead # "nothing" /\ Malformed) =>
              \E k \in ReplyAt :
                  /\ hLog[k].text = <<"ERROR - Bad Request", "\r\n">>
                  /\ hLog[k + 1].op = "Flush"
        /\ (reqRead = "all" /\ ~Malformed) =>
              \E k \in ReplyAt :
                  /\ hLog[k].text =
                        <<CASE svcOutcome = "ok" -> "OK"
                            [] svcOutcome = "unauthorized" -> "ERROR - Not Authorized"
                            [] svcOutcome = "notfound" -> "ERROR - Mount Point Does Not Exist"
                            [] svcOutcome = "conflict" -> "ERROR - Mount Point Already In Use"
                            [] OTHER -> "ERROR - Internal Server Error",
                          "\r\n">>
                  /\ hLog[k + 1].op = "Flush"
                  /\ hLog[k - 1].op = "Publisher"

\* A SOURCE request for a mount in use was answered and its connection
\* closed.
SourceConflictAnswered ==
    /\ reqKind = "source"
    /\ hPc = "done"
    /\ reqRead = "all"
    /\ ~Malformed
    /\ svcOutcome = "conflict"

\* ==================================================== the sourcetable
\* A string is a sequence of one-character strings.  The printable ASCII
\* characters in byte order, up to "_" and from "a" on; Go compares strings
\* byte by byte.
ASCII ==
    <<" ", "!", "\"", "#", "$", "%", "&", "'", "(", ")", "*", "+", ",", "-",
      ".", "/", "0", "1", "2", "3", "4", "5", "6", "7", "8", "9", ":", ";",
      "<", "=", ">", "?", "@", "A", "B", "C", "D", "E", "F", "G", "H", "I",
      "J", "K", "L", "M", "N", "O", "P", "Q", "R", "S", "T", "U", "V", "W",
      "X", "Y", "Z", "[", "\\", "]", "^", "_">>
Letters ==
    <<"a", "b", "c", "d", "e", "f", "g", "h", "i", "j", "k", "l", "m", "n",
      "o", "p", "q", "r", "s", "t", "u", "v", "w", "x", "y", "z", "{", "|",
      "}", "~">>

\* The byte of a character: ASCII starts at 32, the lower-case letters at
\* 97; control characters sort below the printable ones.
Byte(c) ==
    IF \E k \in 1..Len(ASCII) : ASCII[k] = c
    THEN 31 + (CHOOSE k \in 1..Len(ASCII) : ASCII[k] = c)
    ELSE IF \E k \in 1..Len(Letters) : Letters[k] = c
    THEN 96 + (CHOOSE k \in 1..Len(Letters) : Letters[k] = c)
    ELSE 0

\* a < b on strings.
RECURSIVE StringLess(_, _)
StringLess(a, b) ==
    IF b = <<>> THEN FALSE
    ELSE IF a = <<>> THEN TRUE
    ELSE IF a[1] # b[1] THEN Byte(a[1]) < Byte(b[1])
    ELSE StringLess(Tail(a), Tail(b))

\* strings.Join
RECURSIVE Join(_, _)
Join(elems, sep) ==
    IF elems = <<>> THEN <<>>
    ELSE IF Len(elems) = 1 THEN elems[1]
    ELSE elems[1] \o sep \o Join(Tail(elems), sep)

\* strings.HasPrefix
HasPrefix(s, prefix) ==
    Len(s) >= Len(prefix) /\ SubSeq(s, 1, Len(prefix)) = prefix

\* strings.Index, counted from 1; 0 when substr does not occur.
Index(s, substr) ==
    LET at == {k \in 1..(Len(s) - Len(substr) + 1) :
                  SubSeq(s, k, k + Len(substr) - 1) = substr}
    IN IF at = {} THEN 0 ELSE CHOOSE k \in at : \A j \in at : k <= j

\* strings.Contains
Contains(s, substr) == substr = <<>> \/ Index(s, substr) # 0

\* strings.Split for a separator that is not empty.
RECURSIVE Split(_, _)
Split(s, sep) ==
    IF Index(s, sep) = 0 THEN <<s>>
    ELSE <<SubSeq(s, 1, Index(s, sep) - 1)>>
             \o Split(SubSeq(s, Index(s, sep) + Len(sep), Len(s)), sep)

\* strings.TrimSpace
IsSpace(c) == c \in {" ", "\t", "\n", "\r"}
RECURSIVE TrimLeft(_)
TrimLeft(s) == IF s # <<>> /\ IsSpace(s[1]) THEN TrimLeft(Tail(s)) ELSE s
RECURSIVE TrimRight(_)
TrimRight(s) ==
    IF s # <<>> /\ IsSpace(s[Len(s)]) THEN TrimRight(SubSeq(s, 1, Len(s) - 1)) ELSE s
TrimSpace(s) == TrimRight(TrimLeft(s))

\* ---------------------------------------------------------------- numbers
Digits == <<"0", "1", "2", "3", "4", "5", "6", "7", "8", "9">>
IsDigit(c) == \E d \in 1..10 : Digits[d] = c
DigitValue(c) == (CHOOSE d \in 1..10 : Digits[d] = c) - 1

\* strconv.FormatInt(n, 10) for n >= 0.
RECURSIVE FormatInt(_)
FormatInt(n) ==
    IF n < 10 THEN <<Digits[n + 1]>>
    ELSE FormatInt(n \div 10) \o <<Digits[(n % 10) + 1]>>

\* The value of a string of digits.
RECURSIVE DigitsValue(_)
DigitsValue(s) ==
    IF s = <<>> THEN 0
    ELSE 10 * DigitsValue(SubSeq(s, 1, Len(s) - 1)) + DigitValue(s[Len(s)])

AllDigits(s) == \A k \in 1..Len(s) : IsDigit(s[k])

\* strconv.ParseInt(s, 10, 64) on unsigned input: the value, or an error.
ParseInt(s) ==
    IF s # <<>> /\ AllDigits(s)
    THEN [ok |-> TRUE, val |-> DigitsValue(s)]
    ELSE [ok |-> FALSE, val |-> 0]

\* A float is its value in units of 10^-5, not negative; the decimals the
\* model keeps.
Decimals == 5
Unit == 100000

\* n written with exactly width digits.
RECURSIVE Padded(_, _)
Padded(n, width) ==
    IF width = 0 THEN <<>>
    ELSE Padded(n \div 10, width - 1) \o <<Digits[(n % 10) + 1]>>

\* strconv.FormatFloat(x, 'f', 4, 32): four decimals, rounded to nearest.
FormatFloat4(x) ==
    LET r == (x + 5) \div 10
    IN FormatInt(r \div 10000) \o <<".">> \o Padded(r % 10000, 4)

\* strconv.FormatFloat(x, 'f', -1, 64): as many decimals as the value needs.
\* The text is that of the decimal value; a float32 that is not a binary
\* fraction prints more digits in Go, with the same order against a bound.
RECURSIVE StripZeros(_)
StripZeros(s) ==
    IF s # <<>> /\ s[Len(s)] = "0" THEN StripZeros(SubSeq(s, 1, Len(s) - 1)) ELSE s
FormatFloat(x) ==
    LET frac == StripZeros(Padded(x % Unit, Decimals))
    IN FormatInt(x \div Unit) \o (IF frac = <<>> THEN <<>> ELSE <<".">> \o frac)

\* The fraction digits s as units, digits beyond the kept decimals dropped.
FracValue(s) ==
    IF Len(s) >= Decimals THEN DigitsValue(SubSeq(s, 1, Decimals))
    ELSE DigitsValue(s \o [k \in 1..(Decimals - Len(s)) |-> "0"])

\* strconv.ParseFloat(s, 64) on unsigned decimal input without exponent.
ParseFloat(s) ==
    LET dot == Index(s, <<".">>)
        int == IF dot = 0 THEN s ELSE SubSeq(s, 1, dot - 1)
        frac == IF dot = 0 THEN <<>> ELSE SubSeq(s, dot + 1, Len(s))
    IN IF AllDigits(int) /\ AllDigits(frac) /\ int \o frac # <<>>
       THEN [ok |-> TRUE, val |-> DigitsValue(int) * Unit + FracValue(frac)]
       ELSE [ok |-> FALSE, val |-> 0]


\* ------------------------------------------------------------ the entries
\* The three record types by their tag.
TagCAS == <<"C", "A", "S">>
TagNET == <<"N", "E", "T">>
TagSTR == <<"S", "T", "R">>

\* type CasterEntry struct: the fields in the order String writes them and
\* ParseCasterEntry reads them; bool01 is written "0"/"1", boolNY "N"/"Y".
CasterEntry ==
    <<[name |-> <<"H", "o", "s", "t">>, kind |-> "string"],
      [name |-> <<"P", "o", "r", "t">>, kind |-> "int"],
      [name |-> <<"I", "d", "e", "n", "t", "i", "f", "i", "e", "r">>, kind |-> "string"],
      [name |-> <<"O", "p", "e", "r", "a", "t", "o", "r">>, kind |-> "string"],
      [name |-> <<"N", "M", "E", "A">>, kind |-> "bool01"],
      [name |-> <<"C", "o", "u", "n", "t", "r", "y">>, kind |-> "string"],
      [name |-> <<"L", "a", "t", "i", "t", "u", "d", "e">>, kind |-> "float"],
      [name |-> <<"L", "o", "n", "g", "i", "t", "u", "d", "e">>, kind |-> "float"],
      [name |-> <<"F", "a", "l", "l", "b", "a", "c", "k", "H", "o", "s", "t", "A", "d", "d", "r", "e", "s", "s">>, kind |-> "string"],
      [name |-> <<"F", "a", "l", "l", "b", "a", "c", "k", "H", "o", "s", "t", "P", "o", "r", "t">>, kind |-> "int"],
      [name |-> <<"M", "i", "s", "c">>, kind |-> "string"]>>

\* type NetworkEntry struct, NetworkEntry.String, ParseNetworkEntry.
NetworkEntry ==
    <<[name |-> <<"I", "d", "e", "n", "t", "i", "f", "i", "e", "r">>, kind |-> "string"],
      [name |-> <<"O", "p", "e", "r", "a", "t", "o", "r">>, kind |-> "string"],
      [name |-> <<"A", "u", "t", "h", "e", "n", "t", "i", "c", "a", "t", "i", "o", "n">>, kind |-> "string"],
      [name |-> <<"F", "e", "e">>, kind |-> "boolNY"],
      [name |-> <<"N", "e", "t", "w", "o", "r", "k", "I", "n", "f", "o", "U", "R", "L">>, kind |-> "string"],
      [name |-> <<"S", "t", "r", "e", "a", "m", "I", "n", "f", "o", "U", "R", "L">>, kind |-> "string"],
      [name |-> <<"R", "e", "g", "i", "s", "t", "r", "a", "t", "i", "o", "n", "A", "d", "d", "r", "e", "s", "s">>, kind |-> "string"],
      [name |-> <<"M", "i", "s", "c">>, kind |-> "string"]>>

\* type StreamEntry struct, StreamEntry.String, ParseStreamEntry.
StreamEntry ==
    <<[name |-> <<"N", "a", "m", "e">>, kind |-> "string"],
      [name |-> <<"I", "d", "e", "n", "t", "i", "f", "i", "e", "r">>, kind |-> "string"],
      [name |-> <<"F", "o", "r", "m", "a", "t">>, kind |-> "string"],
      [name |-> <<"F", "o", "r", "m", "a", "t", "D", "e", "t", "a", "i", "l", "s">>, kind |-> "string"],
      [name |-> <<"C", "a", "r", "r", "i", "e", "r">>, kind |-> "string"],
      [name |-> <<"N", "a", "v", "S", "y", "s", "t", "e", "m">>, kind |-> "string"],
      [name |-> <<"N", "e", "t", "w", "o", "r", "k">>, kind |-> "string"],
      [name |-> <<"C", "o", "u", "n", "t", "r", "y", "C", "o", "d", "e">>, kind |-> "string"],
      [name |-> <<"L", "a", "t", "i", "t", "u", "d", "e">>, kind |-> "float"],
      [name |-> <<"L", "o", "n", "g", "i", "t", "u", "d", "e">>, kind |-> "float"],
      [name |-> <<"N", "M", "E", "A">>, kind |-> "bool01"],
      [name |-> <<"S", "o", "l", "u", "t", "i", "o", "n">>, kind |-> "bool01"],
      [name |-> <<"G", "e", "n", "e", "r", "a", "t", "o", "r">>, kind |-> "string"],
      [name |-> <<"C", "o", "m", "p", "r", "e", "s", "s", "i", "o", "n">>, kind |-> "string"],
      [name |-> <<"A", "u", "t", "h", "e", "n", "t", "i", "c", "a", "t", "i", "o", "n">>, kind |-> "string"],
      [name |-> <<"F", "e", "e">>, kind |-> "boolNY"],
      [name |-> <<"B", "i", "t", "r", "a", "t", "e">>, kind |-> "int"],
      [name |-> <<"M", "i", "s", "c">>, kind |-> "string"]>>

\* The struct type of a record tag.
FieldsOf(tag) ==
    CASE tag = TagCAS -> CasterEntry
      [] tag = TagNET -> NetworkEntry
      [] tag = TagSTR -> StreamEntry

\* An entry is [tag, val]: val[k] is the value of field k of FieldsOf(tag),
\* a string, a number (floats in units), or a boolean.

\* The text String writes for a field value.
FormatField(kind, v) ==
    CASE kind = "string" -> v
      [] kind = "int"    -> FormatInt(v)
      [] kind = "float"  -> FormatFloat4(v)
      [] kind = "bool01" -> IF v THEN <<"1">> ELSE <<"0">>
      [] kind = "boolNY" -> IF v THEN <<"Y">> ELSE <<"N">>

\* CasterEntry.String, NetworkEntry.String, StreamEntry.String:
\* strings.Join([]string{tag, fields...}, ";")
EntryString(e) ==
    Join(<<e.tag>> \o [k \in 1..Len(e.val) |->
                          FormatField(FieldsOf(e.tag)[k].kind, e.val[k])],
         <<";">>)

\* Sourcetable.String: the entries and "ENDSOURCETABLE\r\n", joined by CRLF.
EndSourcetable == <<"E", "N", "D", "S", "O", "U", "R", "C", "E", "T", "A", "B", "L", "E">>
String(st) ==
    Join([k \in 1..Len(st.Casters) |-> EntryString(st.Casters[k])]
           \o [k \in 1..Len(st.Networks) |-> EntryString(st.Networks[k])]
           \o [k \in 1..Len(st.Mounts) |-> EntryString(st.Mounts[k])]
           \o <<EndSourcetable \o <<"\r", "\n">> >>,
         <<"\r", "\n">>)

\* parser.parseString, parseInt, parseFloat32, parseBool: the field at
\* parts[index] (parts counted from 0), the zero value when the line is too
\* short or the text does not convert.
ParseField(kind, parts, index) ==
    IF Len(parts) <= index
    THEN (CASE kind = "string" -> <<>>
            [] kind \in {"int", "float"} -> 0
            [] OTHER -> FALSE)
    ELSE LET text == parts[index + 1]
         IN CASE kind = "string" -> text
              [] kind = "int"    -> ParseInt(text).val
              [] kind = "float"  -> ParseFloat(text).val
              [] kind = "bool01" -> text # <<"0">>
              [] kind = "boolNY" -> text # <<"N">>

\* ParseCasterEntry, ParseNetworkEntry, ParseStreamEntry:
\* strings.Split(line, ";") and one parse call per field.
ParseEntry(tag, line) ==
    [tag |-> tag,
     val |-> [k \in 1..Len(FieldsOf(tag)) |->
                 ParseField(FieldsOf(tag)[k].kind, Split(line, <<";">>), k)]]

\* The error a parse call appends for the field at parts[index]: none,
\* "parsing" when the line is too short, "converting" when the text is not a
\* number.
FieldErrors(kind, parts, index) ==
    IF Len(parts) <= index THEN <<[index |-> index, failure |-> "parsing"]>>
    ELSE IF kind = "int" /\ ~ParseInt(parts[index + 1]).ok
    THEN <<[index |-> index, failure |-> "converting"]>>
    ELSE IF kind = "float" /\ ~ParseFloat(parts[index + 1]).ok
    THEN <<[index |-> index, failure |-> "converting"]>>
    ELSE <<>>

\* p.errors after the parse calls of an entry, in field order from field k.
RECURSIVE EntryErrorsFrom(_, _, _)
EntryErrorsFrom(tag, line, k) ==
    IF k > Len(FieldsOf(tag)) THEN <<>>
    ELSE FieldErrors(FieldsOf(tag)[k].kind, Split(line, <<";">>), k)
             \o EntryErrorsFrom(tag, line, k + 1)

\* The errors of an entry wrapped with the number of its line.
EntryErrors(tag, line, lineNo) ==
    [k \in 1..Len(EntryErrorsFrom(tag, line, 1)) |->
        [line |-> lineNo,
         index |-> EntryErrorsFrom(tag, line, 1)[k].index,
         failure |-> EntryErrorsFrom(tag, line, 1)[k].failure]]

\* The table with the entry of a line appended to the list of its type and
\* the entry's errors appended to allErrors.
WithEntry(table, tag, line, lineNo) ==
    LET listed ==
            CASE tag = TagCAS ->
                   [table EXCEPT !.Casters = Append(@, ParseEntry(tag, line))]
              [] tag = TagNET ->
                   [table EXCEPT !.Networks = Append(@, ParseEntry(tag, line))]
              [] tag = TagSTR ->
                   [table EXCEPT !.Mounts = Append(@, ParseEntry(tag, line))]
    IN [listed EXCEPT !.allErrors = @ \o EntryErrors(tag, line, lineNo)]

\* A loop that leaves out an entry with errors.
RECURSIVE ParseLinesStrict(_, _, _)
ParseLinesStrict(lines, lineNo, table) ==
    IF lines = <<>> THEN table
    ELSE LET line == TrimSpace(lines[1])
         IN IF line = <<>> THEN ParseLinesStrict(Tail(lines), lineNo + 1, table)
            ELSE IF line = EndSourcetable THEN table
            ELSE IF Len(line) < 3 THEN [table EXCEPT !.panic = TRUE]
            ELSE LET tag == SubSeq(line, 1, 3)
                     next ==
                        IF tag \in {TagCAS, TagNET, TagSTR}
                        THEN IF EntryErrors(tag, line, lineNo) = <<>>
                             THEN WithEntry(table, tag, line, lineNo)
                             ELSE [table EXCEPT
                                      !.allErrors = @ \o EntryErrors(tag, line, lineNo)]
                        ELSE table
                 IN ParseLinesStrict(Tail(lines), lineNo + 1, next)

\* The rest of ParseSourcetable's loop over the lines, lineNo counted from
\* 0: blank lines are skipped, ENDSOURCETABLE ends the loop, line[:3] selects
\* the parser and panics on a line of one or two characters.
RECURSIVE ParseLines(_, _, _)
ParseLines(lines, lineNo, table) ==
    IF lines = <<>> THEN table
    ELSE LET line == TrimSpace(lines[1])
         IN IF line = <<>> THEN ParseLines(Tail(lines), lineNo + 1, table)
            ELSE IF line = EndSourcetable THEN table
            ELSE IF Len(line) < 3 THEN [table EXCEPT !.panic = TRUE]
            ELSE LET tag == SubSeq(line, 1, 3)
                     next ==
                        IF tag \in {TagCAS, TagNET, TagSTR}
                        THEN WithEntry(table, tag, line, lineNo)
                        ELSE table
                 IN ParseLines(Tail(lines), lineNo + 1, next)

\* The result of ParseSourcetable before the first line: an empty table, no
\* errors; panic is set when the call does not return.
NoTable ==
    [Casters |-> <<>>, Networks |-> <<>>, Mounts |-> <<>>,
     allErrors |-> <<>>, panic |-> FALSE]

\* ParseSourcetable: strings.Split(str, "\n") and the loop.
ParseSourcetable(str) == ParseLines(Split(str, <<"\n">>), 0, NoTable)

\* The table of a parse result.
TableOf(r) == [Casters |-> r.Casters, Networks |-> r.Networks, Mounts |-> r.Mounts]


\* ------------------------------------------------------------- the filter
\* getFieldNameByIndex: the field lists by entry type, index counted from 0.
FieldNames(entryType) ==
    CASE entryType = TagSTR ->
           <<<<"N", "a", "m", "e">>,
             <<"I", "d", "e", "n", "t", "i", "f", "i", "e", "r">>,
             <<"F", "o", "r", "m", "a", "t">>,
             <<"F", "o", "r", "m", "a", "t", "D", "e", "t", "a", "i", "l", "s">>,
             <<"C", "a", "r", "r", "i", "e", "r">>,
             <<"N", "a", "v", "S", "y", "s", "t", "e", "m">>,
             <<"N", "e", "t", "w", "o", "r", "k">>,
             <<"C", "o", "u", "n", "t", "r", "y", "C", "o", "d", "e">>,
             <<"L", "a", "t", "i", "t", "u", "d", "e">>,
             <<"L", "o", "n", "g", "i", "t", "u", "d", "e">>,
             <<"N", "M", "E", "A">>,
             <<"S", "o", "l", "u", "t", "i", "o", "n">>,
             <<"G", "e", "n", "e", "r", "a", "t", "o", "r">>,
             <<"C", "o", "m", "p", "r", "e", "s", "s", "i", "o", "n">>,
             <<"A", "u", "t", "h", "e", "n", "t", "i", "c", "a", "t", "i", "o", "n">>,
             <<"F", "e", "e">>, <<"B", "i", "t", "r", "a", "t", "e">>,
             <<"M", "i", "s", "c">>>>
      [] entryType = TagCAS ->
           <<<<"H", "o", "s", "t">>, <<"P", "o", "r", "t">>,
             <<"I", "d", "e", "n", "t", "i", "f", "i", "e", "r">>,
             <<"O", "p", "e", "r", "a", "t", "o", "r">>,
             <<"N", "M", "E", "A">>, <<"C", "o", "u", "n", "t", "r", "y">>,
             <<"L", "a", "t", "i", "t", "u", "d", "e">>,
             <<"L", "o", "n", "g", "i", "t", "u", "d", "e">>,
             <<"F", "a", "l", "l", "b", "a", "c", "k", "H", "o", "s", "t", "A", "d", "d", "r", "e", "s", "s">>,
             <<"F", "a", "l", "l", "b", "a", "c", "k", "H", "o", "s", "t", "P", "o", "r", "t">>,
             <<"M", "i", "s", "c">>>>
      [] entryType = TagNET ->
           <<<<"I", "d", "e", "n", "t", "i", "f", "i", "e", "r">>,
             <<"O", "p", "e", "r", "a", "t", "o", "r">>,
             <<"A", "u", "t", "h", "e", "n", "t", "i", "c", "a", "t", "i", "o", "n">>,
             <<"F", "e", "e">>,
             <<"N", "e", "t", "w", "o", "r", "k", "I", "n", "f", "o", "U", "R", "L">>,
             <<"S", "t", "r", "e", "a", "m", "I", "n", "f", "o", "U", "R", "L">>,
             <<"R", "e", "g", "i", "s", "t", "r", "a", "t", "i", "o", "n", "A", "d", "d", "r", "e", "s", "s">>,
             <<"M", "i", "s", "c">>>>
      [] OTHER -> <<>>

\* A lookup that counts the positions from 1.
getFieldNameByIndexFromOne(entryType, index) ==
    IF index >= 1 /\ index <= Len(FieldNames(entryType))
    THEN FieldNames(entryType)[index]
    ELSE <<>>

getFieldNameByIndex(entryType, index) ==
    IF index < Len(FieldNames(entryType))
    THEN FieldNames(entryType)[index + 1]
    ELSE <<>>

\* The operators in the order parseQuery looks for them.
Operators == <<<<"!", "=">>, <<">", "=">>, <<"<", "=">>, <<"=">>, <<">">>, <<"<">>, <<"~">> >>

\* The conditions of the positional first part "TYPE;v1;v2;...".
PositionalConditions(fields) ==
    IF fields[1] = <<>> THEN <<>>
    ELSE LET used == {j \in 2..Len(fields) :
                         /\ fields[j] # <<>>
                         /\ getFieldNameByIndex(fields[1], j - 2) # <<>>}
             RECURSIVE from(_)
             from(j) ==
                 IF j > Len(fields) THEN <<>>
                 ELSE (IF j \in used
                       THEN <<[field |-> getFieldNameByIndex(fields[1], j - 2),
                               operator |-> <<"=">>, value |-> fields[j]]>>
                       ELSE <<>>) \o from(j + 1)
         IN from(2)

\* The first operator of the list that occurs in part, <<>> if none does.
OperatorIn(part) ==
    LET found == {k \in 1..Len(Operators) : Index(part, Operators[k]) # 0}
    IN IF found = {} THEN <<>>
       ELSE Operators[CHOOSE k \in found : \A j \in found : k <= j]

\* The condition of a part "field<op>value".
Condition(part) ==
    LET op == OperatorIn(part)
        idx == Index(part, op)
    IN [field |-> SubSeq(part, 1, idx - 1),
        operator |-> op,
        value |-> SubSeq(part, idx + Len(op), Len(part))]

\* The loop of parseQuery over the parts from part i on (i counted from 0).
RECURSIVE ParseParts(_, _, _)
ParseParts(parts, i, conditions) ==
    IF parts = <<>> THEN [conditions |-> conditions, err |-> FALSE]
    ELSE IF i = 0 /\ Contains(parts[1], <<";">>)
    THEN ParseParts(Tail(parts), i + 1,
                    conditions \o PositionalConditions(Split(parts[1], <<";">>)))
    ELSE IF OperatorIn(parts[1]) = <<>>
    THEN [conditions |-> conditions, err |-> TRUE]
    ELSE ParseParts(Tail(parts), i + 1, Append(conditions, Condition(parts[1])))

\* A parser that skips a part without an operator.
parseQueryLenient(queryStr) ==
    IF queryStr = <<>> \/ ~HasPrefix(queryStr, <<"?">>)
    THEN [conditions |-> <<>>, err |-> FALSE]
    ELSE [conditions |-> ParseParts(Split(Tail(queryStr), <<"&">>), 0, <<>>).conditions,
          err |-> FALSE]

\* parseQuery
parseQuery(queryStr) ==
    IF queryStr = <<>> \/ ~HasPrefix(queryStr, <<"?">>)
    THEN [conditions |-> <<>>, err |-> FALSE]
    ELSE ParseParts(Split(Tail(queryStr), <<"&">>), 0, <<>>)

\* The text matchesCondition compares: the field converted by its kind.
FieldStr(kind, v) ==
    CASE kind = "string" -> v
      [] kind = "int"    -> FormatInt(v)
      [] kind = "float"  -> FormatFloat(v)
      [] OTHER           -> IF v THEN <<"t", "r", "u", "e">>
                            ELSE <<"f", "a", "l", "s", "e">>

\* The comparison of matchesCondition: numeric when both sides parse as
\* numbers, by bytes otherwise.
Compare(operator, fieldStr, value) ==
    LET f == ParseFloat(fieldStr)
        c == ParseFloat(value)
        numeric == f.ok /\ c.ok
        less == IF numeric THEN f.val < c.val ELSE StringLess(fieldStr, value)
        greater == IF numeric THEN f.val > c.val ELSE StringLess(value, fieldStr)
    IN CASE operator = <<"=">>      -> fieldStr = value
         [] operator = <<"!", "=">> -> fieldStr # value
         [] operator = <<"~">>      -> Contains(fieldStr, value)
         [] operator = <<">">>      -> greater
         [] operator = <<">", "=">> -> ~less
         [] operator = <<"<">>      -> less
         [] operator = <<"<", "=">> -> ~greater
         [] OTHER -> FALSE

\* A comparison that lets a record pass a condition on a field it lacks.
matchesConditionSkipsUnknown(entry, cond) ==
    LET at == {k \in 1..Len(FieldsOf(entry.tag)) :
                  FieldsOf(entry.tag)[k].name = cond.field}
    IN IF at = {} THEN TRUE
       ELSE LET k == CHOOSE j \in at : TRUE
            IN Compare(cond.operator, FieldStr(FieldsOf(entry.tag)[k].kind, entry.val[k]),
                       cond.value)

\* matchesCondition: reflect's FieldByName, the conversion, the comparison.
matchesCondition(entry, cond) ==
    LET at == {k \in 1..Len(FieldsOf(entry.tag)) :
                  FieldsOf(entry.tag)[k].name = cond.field}
    IN IF at = {} THEN FALSE
       ELSE LET k == CHOOSE j \in at : TRUE
            IN Compare(cond.operator, FieldStr(FieldsOf(entry.tag)[k].kind, entry.val[k]),
                       cond.value)

\* query.matches
matches(q, entry) ==
    \A k \in 1..Len(q.conditions) : matchesCondition(entry, q.conditions[k])

\* A loop over the entries that starts at the second one.
MatchingFromSecond(q, entries) ==
    IF entries = <<>> THEN <<>>
    ELSE SelectSeq(Tail(entries), LAMBDA e : matches(q, e))

\* The entries of a list that match, in order.
RECURSIVE Matching(_, _)
Matching(q, entries) ==
    IF entries = <<>> THEN <<>>
    ELSE (IF matches(q, entries[1]) THEN <<entries[1]>> ELSE <<>>)
             \o Matching(q, Tail(entries))

\* A filter that hands out its fresh, empty result when the query does not
\* parse.
FilterResultFresh(st, parsedQuery) ==
    IF parsedQuery.err
    THEN [table |-> [Casters |-> <<>>, Networks |-> <<>>, Mounts |-> <<>>], err |-> TRUE]
    ELSE IF Len(parsedQuery.conditions) = 0 THEN [table |-> st, err |-> FALSE]
    ELSE [table |-> [Casters |-> Matching(parsedQuery, st.Casters),
                     Networks |-> Matching(parsedQuery, st.Networks),
                     Mounts |-> Matching(parsedQuery, st.Mounts)],
          err |-> FALSE]

\* A filter that hands out what it has built so far when the query does not
\* parse.
FilterResultPartial(st, parsedQuery) ==
    [table |-> [Casters |-> Matching(parsedQuery, st.Casters),
                Networks |-> Matching(parsedQuery, st.Networks),
                Mounts |-> Matching(parsedQuery, st.Mounts)],
     err |-> parsedQuery.err]

\* Sourcetable.Filter after parseQuery returned.
FilterResult(st, parsedQuery) ==
    IF parsedQuery.err THEN [table |-> st, err |-> TRUE]
    ELSE IF Len(parsedQuery.conditions) = 0 THEN [table |-> st, err |-> FALSE]
    ELSE [table |-> [Casters |-> Matching(parsedQuery, st.Casters),
                     Networks |-> Matching(parsedQuery, st.Networks),
                     Mounts |-> Matching(parsedQuery, st.Mounts)],
          err |-> FALSE]

\* Sourcetable.Filter
Filter(st, query) ==
    IF query = <<>> THEN [table |-> st, err |-> FALSE]
    ELSE FilterResult(st, parseQuery(query))

\* --------------------------------------------------------------- the inputs
\* Longest list of mounts in a sourcetable.
MaxMounts == 2

Caster(host, port, country, latitude) ==
    [tag |-> TagCAS,
     val |-> <<host, port, <<"i", "d">>, <<>>, FALSE, country, latitude, 0, <<>>, 0, <<>> >>]

Network(identifier, authentication) ==
    [tag |-> TagNET,
     val |-> <<identifier, <<>>, authentication, FALSE, <<>>, <<>>, <<>>, <<>> >>]

Stream(name, country, latitude, authentication, bitrate, misc) ==
    [tag |-> TagSTR,
     val |-> <<name, <<"i", "d">>, <<>>, <<>>, <<>>, <<>>, <<>>, country, latitude, 0,
               FALSE, TRUE, <<>>, <<>>, authentication, FALSE, bitrate, misc>>]

\* 50.5 and 0.00001 in units.
CasterEntries == {Caster(<<"h">>, 2101, <<"D", "E", "U">>, 5050000)}
NetworkEntries == {Network(<<"i", "d">>, <<"B">>)}
StreamEntries ==
    {Stream(<<"A">>, <<"D", "E", "U">>, 5050000, <<"B">>, 9600, <<>>),
     Stream(<<"B">>, <<"A", "U", "S">>, 0, <<"N">>, 0, <<>>),
     Stream(<<"C">>, <<"D", "E", "U">>, 1, <<"N">>, 1200, <<>>),
     Stream(<<"D">>, <<"A", "U", "S">>, 0, <<"N">>, 0, <<"m", " ">>)}

\* Lists over S of length at most n.
ListsUpTo(S, n) == UNION {[1..k -> S] : k \in 0..n}

Tables ==
    [Casters : ListsUpTo(CasterEntries, 1),
     Networks : ListsUpTo(NetworkEntries, 1),
     Mounts : ListsUpTo(StreamEntries, MaxMounts)]

Queries ==
    {<<>>,
     <<"?">>,
     <<"?", "S", "T", "R", ";", ";", ";", ";", ";", ";", ";", ";", "D", "E", "U">>,
     <<"S", "T", "R", ";", ";", ";", ";", ";", ";", ";", ";", "D", "E", "U">>,
     <<"?", "C", "o", "u", "n", "t", "r", "y", "C", "o", "d", "e", "=", "D", "E", "U">>,
     <<"?", "C", "o", "u", "n", "t", "r", "y", "C", "o", "d", "e", "!", "=", "D", "E", "U">>,
     <<"?", "B", "i", "t", "r", "a", "t", "e", ">", "=", "9", "6", "0", "0">>,
     <<"?", "B", "i", "t", "r", "a", "t", "e", "<", "9", "6", "0", "0">>,
     <<"?", "N", "a", "m", "e", "~", "A">>,
     <<"?", "L", "a", "t", "i", "t", "u", "d", "e", ">", "5", "0">>,
     <<"?", "b", "a", "d">>,
     <<"?", "S", "T", "R", ";", ";", ";", ";", ";", ";", ";", ";", "D", "E", "U", "&", "b", "a", "d">>,
     <<"?", "S", "T", "R", ";", ";", ";", ";", ";", ";", ";", ";", "D", "E", "U", "&", "B", "i", "t", "r", "a", "t", "e", ">", "9", "0", "0", "0">>,
     <<"?", "N", "E", "T", ";", ";", ";", "B">>,
     <<"?", "C", "A", "S", ";", ";", "2", "1", "0", "1">>,
     <<"?", "X", "Y", "Z", ";", "a">>,
     <<"?", ";", "a">>,
     <<"?", "N", "o", "p", "e", "=", "x">>}


\* One sourcetable and one query: the table is serialized and parsed back,
\* and filtered once and then again.
TableInit ==
    /\ BrokerInit
    /\ FanIdle
    /\ CasterInit
    /\ HandlerIdle
    /\ ServerIdle
    /\ RtspIdle
    /\ tblIn \in Tables
    /\ tblQuery \in Queries
    /\ tblPc = "start"
    /\ tblText = <<>>
    /\ tblParsed = NoTable
    /\ tblOnce = [table |-> tblIn, err |-> FALSE]
    /\ tblTwice = [table |-> tblIn, err |-> FALSE]

TableFrame ==
    /\ UNCHANGED <<tblIn, tblQuery>>
    /\ UNCHANGED <<brokerVars, fanVars, casterVars, handlerVars, serverVars, rtspVars>>

\* st.String()
Serialize ==
    /\ tblPc = "start"
    /\ tblText' = String(tblIn)
    /\ tblPc' = "serialized"
    /\ UNCHANGED <<tblParsed, tblOnce, tblTwice>>
    /\ TableFrame

\* ParseSourcetable(text)
Parse ==
    /\ tblPc = "serialized"
    /\ tblParsed' = ParseSourcetable(tblText)
    /\ tblPc' = "parsed"
    /\ UNCHANGED <<tblText, tblOnce, tblTwice>>
    /\ TableFrame

\* st.Filter(query)
FilterOnce ==
    /\ tblPc = "start"
    /\ tblOnce' = Filter(tblIn, tblQuery)
    /\ tblPc' = "filtered"
    /\ UNCHANGED <<tblText, tblParsed, tblTwice>>
    /\ TableFrame

\* The result filtered again with the same query.
FilterAgain ==
    /\ tblPc = "filtered"
    /\ tblTwice' = Filter(tblOnce.table, tblQuery)
    /\ tblPc' = "refiltered"
    /\ UNCHANGED <<tblText, tblParsed, tblOnce>>
    /\ TableFrame

TableNext ==
    \/ Serialize
    \/ Parse
    \/ FilterOnce
    \/ FilterAgain

SpecTable == TableInit /\ [][TableNext]_vars

\* ------------------------------------------------ properties of the table
\* The string-valued fields of an entry.
StringFields(e) ==
    {e.val[k] : k \in {j \in 1..Len(e.val) : FieldsOf(e.tag)[j].kind = "string"}}

\* The entries of a table.
Entries(st) ==
    {st.Casters[k] : k \in 1..Len(st.Casters)}
        \cup {st.Networks[k] : k \in 1..Len(st.Networks)}
        \cup {st.Mounts[k] : k \in 1..Len(st.Mounts)}

\* No string-valued field holds ";", a newline or the terminator.
PlainStrings(st) ==
    \A e \in Entries(st) : \A s \in StringFields(e) :
        /\ ~Contains(s, <<";">>)
        /\ ~Contains(s, <<"\n">>)
        /\ ~Contains(s, EndSourcetable)

\* C26: parsing the serialization of a sourcetable whose string-valued
\* fields hold no ";", newline or terminator gives a sourcetable equal to the
\* original.  It does not: String writes latitude and longitude with four
\* decimals, and ParseSourcetable trims every line, so a coordinate with a
\* fifth decimal and a Misc that ends in a space come back changed.
ParseOfStringIsIdentity ==
    (tblPc = "parsed" /\ PlainStrings(tblIn))
        => (~tblParsed.panic /\ TableOf(tblParsed) = tblIn)

\* Filter has returned for the table and the query of this behaviour.
Filtered == tblPc \in {"filtered", "refiltered"}

\* C27: filtering with the empty query "" and filtering with the query "?"
\* each return a sourcetable equal to the input.  ("" returns before the
\* query is parsed; "?" leaves one empty part, which has no operator, and
\* Filter hands back the input next to the error.)
EmptyQueryReturnsInput ==
    (Filtered /\ tblQuery \in {<<>>, <<"?">>}) => tblOnce.table = tblIn

\* A table with a caster, a network and two mounts was filtered with "?".
QuestionMarkFiltered ==
    /\ tblPc = "filtered"
    /\ tblQuery = <<"?">>
    /\ Len(tblIn.Casters) = 1
    /\ Len(tblIn.Networks) = 1
    /\ Len(tblIn.Mounts) = MaxMounts
    /\ tblOnce.table = tblIn

\* C28: Filter is idempotent: filtering the result of Filter(s, q) again with
\* q gives the same sourcetable as Filter(s, q).
FilterIsIdempotent ==
    tblPc = "refiltered" => tblTwice.table = tblOnce.table

\* A query with conditions removed one mount and kept another, and the
\* result was filtered again.
FilteredTwice ==
    /\ tblPc = "refiltered"
    /\ ~tblOnce.err
    /\ Len(tblIn.Mounts) = MaxMounts
    /\ Len(tblOnce.table.Mounts) = 1
    /\ tblTwice.table = tblOnce.table

\* The query of this behaviour does not parse.
QueryFails == tblQuery # <<>> /\ parseQuery(tblQuery).err

\* C29: when the query fails to parse, Filter returns the original
\* sourcetable unchanged together with an error, so a caller that ignores
\* the error still serves the full table.
ParseErrorReturnsOriginal ==
    (Filtered /\ QueryFails) => (tblOnce.err /\ tblOnce.table = tblIn)

\* A query whose positional part selects DEU and whose second part has no
\* operator was applied to a table with a mount outside DEU.
BadPartAfterPositional ==
    /\ tblPc = "filtered"
    /\ QueryFails
    /\ parseQuery(tblQuery).conditions # <<>>
    /\ \E k \in 1..Len(tblIn.Mounts) : tblIn.Mounts[k].val[8] = <<"A", "U", "S">>
    /\ tblOnce.err
    /\ tblOnce.table = tblIn

\* The fields of the positional first part of a query "?TYPE;v1;v2;...",
\* <<>> for a query without one.
PositionalFields(q) ==
    IF HasPrefix(q, <<"?">>) /\ Contains(Split(Tail(q), <<"&">>)[1], <<";">>)
    THEN Split(Split(Tail(q), <<"&">>)[1], <<";">>)
    ELSE <<>>

\* The query has a positional part for one of the three record types.
IsPositional(q) ==
    /\ PositionalFields(q) # <<>>
    /\ PositionalFields(q)[1] \in {TagCAS, TagNET, TagSTR}

\* One equality per non-empty position, on the field the record type
\* declares at that position.
EqualityPerPosition(fields) ==
    LET schema == FieldsOf(fields[1])
        positions == SelectSeq([j \in 1..(Len(fields) - 1) |-> j],
                               LAMBDA j : fields[j + 1] # <<>> /\ j <= Len(schema))
    IN [k \in 1..Len(positions) |->
           [field |-> schema[positions[k]].name,
            operator |-> <<"=">>,
            value |-> fields[positions[k] + 1]]]

\* The mounts of a table with the given country code, in order.
MountsOfCountry(st, code) == SelectSeq(st.Mounts, LAMBDA e : e.val[8] = code)

QueryDEU == <<"?", "S", "T", "R", ";", ";", ";", ";", ";", ";", ";", ";", "D", "E", "U">>

\* C30: a positional query TYPE;v1;v2;... expands each non-empty position to
\* an equality on the field of that record type at that index, and
\* ?STR;;;;;;;;DEU returns exactly the streams whose country code is DEU, and
\* no caster or network rows.
PositionalQueryExpands ==
    /\ \A tag \in {TagCAS, TagNET, TagSTR} : \A j \in 1..Len(FieldsOf(tag)) :
           getFieldNameByIndex(tag, j - 1) = FieldsOf(tag)[j].name
    /\ (Filtered /\ IsPositional(tblQuery)) =>
           LET expected == EqualityPerPosition(PositionalFields(tblQuery))
               conditions == parseQuery(tblQuery).conditions
           IN /\ Len(conditions) >= Len(expected)
              /\ SubSeq(conditions, 1, Len(expected)) = expected
    /\ (Filtered /\ tblQuery = QueryDEU) =>
           tblOnce = [table |-> [Casters |-> <<>>, Networks |-> <<>>,
                                 Mounts |-> MountsOfCountry(tblIn, <<"D", "E", "U">>)],
                      err |-> FALSE]

\* ?STR;;;;;;;;DEU was applied to a table with a caster in DEU, a network, a
\* mount in DEU and a mount elsewhere, and one mount came back.
DEUStreamsReturned ==
    /\ tblPc = "filtered"
    /\ tblQuery = QueryDEU
    /\ Len(tblIn.Casters) = 1
    /\ Len(tblIn.Networks) = 1
    /\ \E k \in 1..Len(tblIn.Mounts) : tblIn.Mounts[k].val[8] = <<"A", "U", "S">>
    /\ Len(tblOnce.table.Mounts) = 1
    /\ tblOnce.table.Casters = <<>>
    /\ tblOnce.table.Networks = <<>>

\* The record type has a field of this name.
HasField(tag, name) ==
    \E k \in 1..Len(FieldsOf(tag)) : FieldsOf(tag)[k].name = name

\* The conditions of the query of this behaviour.
ConditionsOf(q) ==
    {parseQuery(q).conditions[k] : k \in 1..Len(parseQuery(q).conditions)}

\* C31: a condition naming a field that a record does not have rejects that
\* record and raises no error; a query whose condition names a field unknown
\* to every record type returns an empty sourcetable with a nil error.
UnknownFieldRejects ==
    (Filtered /\ tblQuery # <<>> /\ ~parseQuery(tblQuery).err) =>
        /\ ~tblOnce.err
        /\ \A cond \in ConditionsOf(tblQuery) : \A e \in Entries(tblIn) :
               ~HasField(e.tag, cond.field) =>
                   /\ ~matchesCondition(e, cond)
                   /\ e \notin Entries(tblOnce.table)
        /\ (\E cond \in ConditionsOf(tblQuery) :
               \A tag \in {TagCAS, TagNET, TagSTR} : ~HasField(tag, cond.field))
               => tblOnce.table = [Casters |-> <<>>, Networks |-> <<>>, Mounts |-> <<>>]

\* A table with a caster, a network and mounts was filtered on a field no
\* record type has, and nothing came back, without an error.
UnknownFieldFiltered ==
    /\ tblPc = "filtered"
    /\ tblQuery = <<"?", "N", "o", "p", "e", "=", "x">>
    /\ Len(tblIn.Casters) = 1
    /\ Len(tblIn.Networks) = 1
    /\ Len(tblIn.Mounts) = MaxMounts
    /\ tblOnce.table = [Casters |-> <<>>, Networks |-> <<>>, Mounts |-> <<>>]
    /\ ~tblOnce.err

\* ------------------------------------------------ parsing of any text
\* Most lines of a text.
MaxLines == 2

\* The lines the texts are made of:
\*   1  a stream entry with every field
\*   2  a stream entry that ends after the name
\*   3  a stream entry whose latitude and bitrate are not numbers
\*   4  a caster entry that ends after the port, behind a tab
\*   5  a network entry that ends after the identifier
\*   6  a line with another tag
\*   7  a line of two characters
\*   8  a blank line
\*   9  the terminator
Lines ==
    {<<"S", "T", "R", ";", "A", ";", "i", "d", ";", ";", ";", ";", ";", ";", "D", "E", "U", ";", "5", "0", ".", "5", "0", "0", "0", ";", "0", ".", "0", "0", "0", "0", ";", "0", ";", "1", ";", ";", ";", "B", ";", "N", ";", "9", "6", "0", "0", ";">>,
     <<"S", "T", "R", ";", "A">>,
     <<"S", "T", "R", ";", "A", ";", "i", "d", ";", ";", ";", ";", ";", ";", "D", "E", "U", ";", "x", ";", "0", ".", "0", "0", "0", "0", ";", "0", ";", "1", ";", ";", ";", "B", ";", "N", ";", "a", "b", "c", ";">>,
     <<"\t", "C", "A", "S", ";", "h", ";", "2", "1", "0", "1">>,
     <<"N", "E", "T", ";", "i", "d", "\r">>,
     <<"X", "Y", "Z", ";", "f", "o", "o">>,
     <<"a", "b">>,
     <<" ">>,
     <<"E", "N", "D", "S", "O", "U", "R", "C", "E", "T", "A", "B", "L", "E", "\r">>}

\* The texts: at most MaxLines lines, separated by "\n".
Texts == {Join(ls, <<"\n">>) : ls \in ListsUpTo(Lines, MaxLines)}

\* One text is parsed.
ParseInit ==
    /\ BrokerInit
    /\ FanIdle
    /\ CasterInit
    /\ HandlerIdle
    /\ ServerIdle
    /\ RtspIdle
    /\ tblIn = <<>>
    /\ tblQuery = <<>>
    /\ tblPc = "text"
    /\ tblText \in Texts
    /\ tblParsed = NoTable
    /\ tblOnce = <<>>
    /\ tblTwice = <<>>

\* ParseSourcetable(text)
ParseText ==
    /\ tblPc = "text"
    /\ tblParsed' = ParseSourcetable(tblText)
    /\ tblPc' = "parsedText"
    /\ UNCHANGED <<tblText, tblOnce, tblTwice>>
    /\ TableFrame

ParseNext == ParseText

SpecParse == ParseInit /\ [][ParseNext]_vars

\* The trimmed lines of a text.
TrimmedLines(text) ==
    [k \in 1..Len(Split(text, <<"\n">>)) |-> TrimSpace(Split(text, <<"\n">>)[k])]

\* The position of the first terminator line, one past the end without one.
EndAt(lines) ==
    IF \E k \in 1..Len(lines) : lines[k] = EndSourcetable
    THEN CHOOSE k \in 1..Len(lines) :
             /\ lines[k] = EndSourcetable
             /\ \A j \in 1..(k - 1) : lines[j] # EndSourcetable
    ELSE Len(lines) + 1

\* The positions of the record lines: tagged CAS, NET or STR, before the
\* terminator.
Records(lines) ==
    {k \in 1..(EndAt(lines) - 1) :
        Len(lines[k]) >= 3 /\ SubSeq(lines[k], 1, 3) \in {TagCAS, TagNET, TagSTR}}

\* The list of a parse result for a tag.
ListOf(r, tag) ==
    CASE tag = TagCAS -> r.Casters
      [] tag = TagNET -> r.Networks
      [] tag = TagSTR -> r.Mounts

\* The entry a parse result holds for the record line at position k: the
\* n-th of its list, when k is the n-th record line with its tag.
EntryOf(r, lines, k) ==
    LET tag == SubSeq(lines[k], 1, 3)
        n == Cardinality({j \in Records(lines) : j <= k /\ SubSeq(lines[j], 1, 3) = tag})
    IN ListOf(r, tag)[n]

\* The zero value of a field.
Zero(kind) ==
    CASE kind = "string" -> <<>>
      [] kind \in {"int", "float"} -> 0
      [] OTHER -> FALSE

\* Field index of a record line is missing or is not the number it should be.
FieldFails(kind, parts, index) ==
    \/ Len(parts) <= index
    \/ kind = "int" /\ ~ParseInt(parts[index + 1]).ok
    \/ kind = "float" /\ ~ParseFloat(parts[index + 1]).ok

\* C32: a record with missing or malformed fields is still included in the
\* parsed sourcetable, with the failing fields zero or empty and the failures
\* reported as warnings.
FailedFieldsKeepRecord ==
    (tblPc = "parsedText" /\ ~tblParsed.panic) =>
        LET lines == TrimmedLines(tblText)
        IN /\ Len(tblParsed.Casters) + Len(tblParsed.Networks) + Len(tblParsed.Mounts)
                  = Cardinality(Records(lines))
           /\ \A k \in Records(lines) :
                 LET tag == SubSeq(lines[k], 1, 3)
                     parts == Split(lines[k], <<";">>)
                 IN \A i \in 1..Len(FieldsOf(tag)) :
                       FieldFails(FieldsOf(tag)[i].kind, parts, i) =>
                           /\ EntryOf(tblParsed, lines, k).val[i] = Zero(FieldsOf(tag)[i].kind)
                           /\ \E w \in 1..Len(tblParsed.allErrors) :
                                 /\ tblParsed.allErrors[w].line = k - 1
                                 /\ tblParsed.allErrors[w].index = i

\* A stream line whose latitude and bitrate are not numbers, after a stream
\* line that ends early, was parsed: both are mounts, the second with its
\* name, a zero latitude and bitrate, and two conversion warnings.
MalformedStreamKept ==
    /\ tblPc = "parsedText"
    /\ ~tblParsed.panic
    /\ Len(tblParsed.Mounts) = 2
    /\ tblParsed.Mounts[2].val[1] = <<"A">>
    /\ tblParsed.Mounts[2].val[8] = <<"D", "E", "U">>
    /\ tblParsed.Mounts[2].val[9] = 0
    /\ tblParsed.Mounts[2].val[17] = 0
    /\ Cardinality({w \in 1..Len(tblParsed.allErrors) :
                       /\ tblParsed.allErrors[w].line = 1
                       /\ tblParsed.allErrors[w].failure = "converting"}) = 2
    /\ \E w \in 1..Len(tblParsed.allErrors) : tblParsed.allErrors[w].line = 0

\* C33: parsing skips every non-blank line whose leading tag is not CAS, NET
\* or STR, a line shorter than three characters included, and goes on with
\* the following lines until ENDSOURCETABLE; no text makes the parser fail.
\* It does fail: line[:3] is taken of every non-blank line, and a line of one
\* or two characters is out of range for it.
UntaggedLinesSkipped ==
    tblPc = "parsedText" =>
        /\ ~tblParsed.panic
        /\ Len(tblParsed.Casters) + Len(tblParsed.Networks) + Len(tblParsed.Mounts)
               = Cardinality(Records(TrimmedLines(tblText)))

\* C34: a publish request is rejected with Conflict only while a previous
\* publisher of that mount still has its writer open: once the previous
\* publisher's handler has closed its writer and returned, a new publish on
\* the same mount is not rejected with Conflict.  It can be: the entry stays
\* in ss.mounts until the pump has seen the end of the pipe and taken the
\* mutex to delete it.
ConflictOnlyWhileWriterOpen ==
    [][\A q \in Pubs :
          (pubResult[q] # "conflict" /\ pubResult'[q] = "conflict") =>
              \E p \in OwnerOf(pubMount[q]) : ~pubClosed[p] /\ pubPc[p] # "done"]_vars

\* C36: the cleanup performed when a publisher's pump finishes never removes
\* or alters the online state created by a later publisher of the same mount
\* name, nor the subscribers registered to that later publisher: the step
\* that ends a pump leaves the entry of every other live pump, and the
\* writers listed in it, as they were.
CleanupSparesLaterPublisher ==
    [][\A p \in Pubs :
          (pumpPc[p] # "done" /\ pumpPc'[p] = "done") =>
              \A q \in Pubs \ {p} :
                  (pubResult[q] = "ok" /\ PumpAlive(q)) =>
                      /\ MountOnline(mounts, pubMount[q])
                      /\ MountOnline(mounts', pubMount[q])
                      /\ mounts'[pubMount[q]] = mounts[pubMount[q]]]_vars

\* The first publisher's pump has finished and cleaned up, a later publisher
\* of the same name is online, and a subscriber is registered with it.
LaterPublisherOnline ==
    \E p, q \in Pubs : \E s \in Subs :
        /\ p < q
        /\ pubMount[p] = pubMount[q]
        /\ pubResult[p] = "ok"
        /\ pumpPc[p] = "done"
        /\ pubResult[q] = "ok"
        /\ PumpAlive(q)
        /\ subPub[s] = q
        /\ MountOnline(mounts, pubMount[q])
        /\ \E k \in 1..Len(mounts[pubMount[q]]) : mounts[pubMount[q]][k] = s

\* C35: every read and every write of the in-memory service's mount map
\* happens while the service mutex is held, the pump's removal of the mount
\* when the publisher's reader fails included: a step of the pump that
\* changes the map or the slice stored in it is taken by the holder of the
\* mutex, and the process is never stopped for an unsynchronised access.
\* The removal after a failed Read in the first Publisher is not.
MapAccessUnderMutex ==
    [][/\ (fanOnline' # fanOnline \/ fanLen' # fanLen \/ fanArray' # fanArray)
             => fanMutex = "pump"
       /\ fanPc' # "fatal"]_vars

\* ============================================== the v1 SOURCE listener
\* Connections ListenAndServe accepts.
MaxAccepts == 3
\* Calls of Close.
Closers == {1, 2}

\* NewServer, and ListenAndServe called.
ServerInit ==
    /\ BrokerInit
    /\ FanIdle
    /\ CasterInit
    /\ HandlerIdle
    /\ TableIdle
    /\ RtspIdle
    /\ srvRunning = FALSE
    /\ srvListener = FALSE
    /\ srvSocket = "none"
    /\ lsPc = "idle"
    /\ lsErr = FALSE
    /\ clPc = [c \in Closers |-> "idle"]
    /\ srvConns = <<>>

ServerFrame == UNCHANGED <<brokerVars, fanVars, casterVars, handlerVars, tableVars, rtspVars>>

\* ListenAndServe: s.mu.Lock(); if s.running { return error };
\* s.running = true; s.mu.Unlock().
LsMark ==
    /\ lsPc = "idle"
    /\ IF srvRunning
       THEN /\ lsPc' = "returned"
            /\ lsErr' = TRUE
            /\ UNCHANGED srvRunning
       ELSE /\ lsPc' = "listen"
            /\ srvRunning' = TRUE
            /\ UNCHANGED lsErr
    /\ UNCHANGED <<srvListener, srvSocket, clPc, srvConns>>
    /\ ServerFrame

\* net.Listen("tcp", addr): a listener, or an error, after which running is
\* reset under the mutex and the error returned.
LsListen(ok) ==
    /\ lsPc = "listen"
    /\ IF ok
       THEN /\ srvSocket' = "open"
            /\ lsPc' = "assign"
            /\ UNCHANGED <<srvRunning, lsErr>>
       ELSE /\ srvRunning' = FALSE
            /\ lsPc' = "returned"
            /\ lsErr' = TRUE
            /\ UNCHANGED srvSocket
    /\ UNCHANGED <<srvListener, clPc, srvConns>>
    /\ ServerFrame

\* s.listener = listener, outside the mutex.
LsAssign ==
    /\ lsPc = "assign"
    /\ srvListener' = TRUE
    /\ lsPc' = "accept"
    /\ UNCHANGED <<srvRunning, srvSocket, lsErr, clPc, srvConns>>
    /\ ServerFrame

\* listener.Accept() returns a connection: go s.handleConnection(conn).
LsAccept ==
    /\ lsPc = "accept"
    /\ srvSocket = "open"
    /\ Len(srvConns) < MaxAccepts
    /\ srvConns' = Append(srvConns, "open")
    /\ UNCHANGED <<srvRunning, srvListener, srvSocket, lsPc, lsErr, clPc>>
    /\ ServerFrame

\* listener.Accept() fails because the listener is closed:
\* if !s.running { return nil }, else the loop goes on.
LsAcceptErr ==
    /\ lsPc = "accept"
    /\ srvSocket = "closed"
    /\ lsPc' = IF ~srvRunning THEN "returned" ELSE lsPc
    /\ UNCHANGED <<srvRunning, srvListener, srvSocket, lsErr, clPc, srvConns>>
    /\ ServerFrame

\* handleConnection returns: the deferred conn.Close().
ConnDone(k) ==
    /\ k \in 1..Len(srvConns)
    /\ srvConns[k] = "open"
    /\ srvConns' = [srvConns EXCEPT ![k] = "closed"]
    /\ UNCHANGED <<srvRunning, srvListener, srvSocket, lsPc, lsErr, clPc>>
    /\ ServerFrame

\* Server.Close under the mutex, what it does to the listener:
\* if !s.running { return nil }; s.running = false;
\* if s.listener != nil { return s.listener.Close() }.
CloseSocket(running, listener, socket) ==
    IF running /\ listener THEN "closed" ELSE socket

\* Server.Close, called once ListenAndServe has been.
Close(c) ==
    /\ clPc[c] = "idle"
    /\ lsPc # "idle"
    /\ srvRunning' = FALSE
    /\ srvSocket' = CloseSocket(srvRunning, srvListener, srvSocket)
    /\ clPc' = [clPc EXCEPT ![c] = "returned"]
    /\ UNCHANGED <<srvListener, lsPc, lsErr, srvConns>>
    /\ ServerFrame

ServerNext ==
    \/ LsMark
    \/ \E ok \in BOOLEAN : LsListen(ok)
    \/ LsAssign
    \/ LsAccept
    \/ LsAcceptErr
    \/ \E k \in 1..MaxAccepts : ConnDone(k)
    \/ \E c \in Closers : Close(c)

SpecServer == ServerInit /\ [][ServerNext]_vars

\* C37: once Close has returned no further connection is accepted and the
\* pending ListenAndServe call returns, for every interleaving of Close with
\* ListenAndServe, the one in which Close runs after ListenAndServe has
\* marked the server running and before its listener is bound included.  In
\* that one Close finds s.listener nil and closes nothing; ListenAndServe
\* then accepts connections and stays in its loop.
ClosedServerAcceptsNothing ==
    [][(\E c \in Closers : clPc[c] = "returned") =>
           /\ Len(srvConns') = Len(srvConns)
           /\ lsPc' # "accept" \/ srvSocket' # "open"]_vars

\* ---------------------------------------------------------------------
\* The RTSP server (rtsp/rtsp.go).  Server.handleConnection builds a new
\* Conn for each accepted connection, reads one request from it, hands the
\* Conn to the handler once and closes the connection when the handler
\* returns.  A session id is 0 for the empty string (an absent Session
\* header, and conn.sessionID of a new Conn), k >= 1 for the k-th id
\* generateSessionID returned, and NoSuchSession for a string it never
\* returned.

\* The connections the server accepts.
MaxConns == 2

NoSuchSession == MaxConns + 1

StatusOK == 200
StatusBadRequest == 400
StatusUnauthorized == 401
StatusNotFound == 404
StatusMethodNotAllowed == 405
StatusInternalServerError == 500

RtspMethods == {"OPTIONS", "DESCRIBE", "SETUP", "PLAY", "PAUSE", "TEARDOWN"}

\* A response written with WriteResponse; session is its Session header,
\* 0 when it has none.
RtspResponse(code, session) ==
    [op |-> "WriteResponse", code |-> code, session |-> session]

RtspSubscriber == [op |-> "Subscriber", code |-> 0, session |-> 0]

\* The requests readRequest can return: the method, the Session header,
\* whether a Transport header is present, whether the mount is in the
\* sourcetable, and what Subscriber would answer.  A field a method does not
\* look at is held at one value.
RtspRequests ==
    {r \in [method : RtspMethods,
            session : 0..NoSuchSession,
            transport : BOOLEAN,
            mountExists : BOOLEAN,
            outcome : {"ok", "unauthorized", "notfound", "error"}] :
        /\ r.method \notin {"PLAY", "TEARDOWN"} => r.session = 0
        /\ r.method # "SETUP" => r.transport = FALSE
        /\ r.method # "DESCRIBE" => r.mountExists = FALSE
        /\ r.method # "PLAY" => r.outcome = "ok"}

\* The status the PLAY branch gives an error of Subscriber.
PlayStatus(outcome) ==
    CASE outcome = "ok"           -> StatusOK
      [] outcome = "unauthorized" -> StatusUnauthorized
      [] outcome = "notfound"     -> StatusNotFound
      [] OTHER                    -> StatusInternalServerError

\* The handler on a Conn whose sessionID is sessionID; newID is what
\* generateSessionID returns if it is called.  The result is conn.sessionID
\* afterwards and what the handler did.
RTSPHandler(req, sessionID, newID) ==
    CASE req.method = "OPTIONS" ->
           [sessionID |-> sessionID, log |-> <<RtspResponse(StatusOK, 0)>>]
      [] req.method = "DESCRIBE" ->
           [sessionID |-> sessionID,
            log |-> <<RtspResponse(IF req.mountExists THEN StatusOK
                                   ELSE StatusNotFound, 0)>>]
      [] req.method = "SETUP" ->
           IF ~req.transport
           THEN [sessionID |-> sessionID,
                 log |-> <<RtspResponse(StatusBadRequest, 0)>>]
           ELSE [sessionID |-> newID,
                 log |-> <<RtspResponse(StatusOK, newID)>>]
      [] req.method = "PLAY" ->
           IF req.session # sessionID
           THEN [sessionID |-> sessionID,
                 log |-> <<RtspResponse(StatusBadRequest, 0)>>]
           ELSE [sessionID |-> sessionID,
                 log |-> <<RtspSubscriber,
                           RtspResponse(PlayStatus(req.outcome),
                                        IF req.outcome = "ok" THEN sessionID
                                        ELSE 0)>>]
      [] req.method = "TEARDOWN" ->
           IF req.session # sessionID
           THEN [sessionID |-> sessionID,
                 log |-> <<RtspResponse(StatusBadRequest, 0)>>]
           ELSE [sessionID |-> sessionID,
                 log |-> <<RtspResponse(StatusOK, 0)>>]
      [] OTHER ->
           [sessionID |-> sessionID,
            log |-> <<RtspResponse(StatusMethodNotAllowed, 0)>>]

RtspInit ==
    /\ BrokerInit
    /\ FanIdle
    /\ CasterInit
    /\ HandlerIdle
    /\ TableIdle
    /\ ServerIdle
    /\ RtspIdle

RtspFrame ==
    UNCHANGED <<brokerVars, fanVars, casterVars, handlerVars, tableVars,
                serverVars>>

\* Server.handleConnection on the next connection, whose request is req.
\* A request carries only a session id some response has shown a client, or
\* one no response has shown.
ServeConn(req) ==
    /\ Len(rtspReq) < MaxConns
    /\ req.session \in {0, NoSuchSession} \cup (1..rtspIssued)
    /\ LET done == RTSPHandler(req, 0, rtspIssued + 1)
       IN  /\ rtspReq' = Append(rtspReq, req)
           /\ rtspSession' = Append(rtspSession, done.sessionID)
           /\ rtspLog' = Append(rtspLog, done.log)
           /\ rtspIssued' = IF done.sessionID # 0 THEN rtspIssued + 1
                            ELSE rtspIssued
    /\ RtspFrame

\* Server.handleConnection on a connection whose request cannot be read:
\* the handler is not called and nothing is written.
ServeUnreadable ==
    /\ Len(rtspReq) < MaxConns
    /\ rtspReq' = Append(rtspReq, [method |-> "", session |-> 0,
                                   transport |-> FALSE,
                                   mountExists |-> FALSE, outcome |-> "ok"])
    /\ rtspSession' = Append(rtspSession, 0)
    /\ rtspLog' = Append(rtspLog, <<>>)
    /\ UNCHANGED rtspIssued
    /\ RtspFrame

RtspNext ==
    \/ \E req \in RtspRequests : ServeConn(req)
    \/ ServeUnreadable

SpecRtsp == RtspInit /\ [][RtspNext]_vars

\* The session id a successful SETUP on connection c issued before the k-th
\* thing done on it, 0 when there was none.
SetupBefore(c, k) ==
    IF \E j \in 1..(k - 1) : rtspLog[c][j].op = "WriteResponse"
                              /\ rtspLog[c][j].code = StatusOK
                              /\ rtspReq[c].method = "SETUP"
    THEN rtspSession[c]
    ELSE 0

\* C38: a PLAY request subscribes only if an earlier SETUP on the same
\* connection succeeded and the request's Session header equals the id that
\* SETUP issued; a PLAY with no earlier SETUP on its connection, or with a
\* missing or different Session header, is answered 400 and Subscriber is
\* not called for it.  The server reads one request per connection, so a
\* PLAY is always the first request of its connection: with no Session
\* header it matches the empty sessionID of the new Conn and subscribes.
PlayNeedsSetup ==
    \A c \in 1..Len(rtspReq) :
        rtspReq[c].method = "PLAY" =>
            \/ \E k \in 1..Len(rtspLog[c]) :
                   /\ rtspLog[c][k] = RtspSubscriber
                   /\ SetupBefore(c, k) # 0
                   /\ rtspReq[c].session = SetupBefore(c, k)
            \/ rtspLog[c] = <<RtspResponse(StatusBadRequest, 0)>>

\* ---- C39
\* C39: if hijacking the connection fails while a v1 request is handled,
\* the handler reports 500 and returns, without touching the absent
\* hijacked connection and without calling GetSourcetable or Subscriber.
\* handleRequestV1 writes the 500 and has no return after it: it goes on to
\* defer hrw.conn.Close() with hrw.conn nil and panics there.
HijackFailureReturns ==
    (/\ hVersion = 1
     /\ reqMethod = "GET"
     /\ ~hijackOK
     /\ hPc \notin {"request", "v1"}) =>
        /\ hPc = "done"
        /\ hLog = <<Ev("WriteHeader", 500, <<>>, FALSE)>>

====
